---- MODULE Spec2Model ----
(***************************************************************************)
(* Model of the Vidstish media-assembly workers (src/worker/tasks):        *)
(*   transitions.py  Filter-Graph Compositor and Transition Merger         *)
(*   trim.py         Segment Trimmer                                       *)
(*   highlight.py    Highlight Stager                                      *)
(*   publish.py      Upload Publisher                                      *)
(*                                                                         *)
(* Conventions.                                                            *)
(*  - A Python str is a sequence of one-character strings, so that         *)
(*    str.lower() is computed character by character.  None is the         *)
(*    one-element sequence <<"<None>">>, which is no Python str.           *)
(*  - A Python dict is a function whose DOMAIN is its key set.             *)
(*  - Times and durations are integers counted in half seconds             *)
(*    (5.0 s = 10, 1.5 s = 3), the resolution of the repository's tests.   *)
(*  - An external process or HTTP call is a step whose outcome (exit       *)
(*    status, file written, response) is chosen nondeterministically.      *)
(***************************************************************************)
EXTENDS Integers, Sequences, FiniteSets, TLC

\* ------------------------------------------------------------------ bounds

\* Largest number of segments / durations in one call.
MaxSegments == 3

\* Segment positions are drawn from 0..MaxPosition.
MaxPosition == 2

\* ------------------------------------------------------------- Python values

None == <<"<None>">>

\* str.lower() on one character.
LowerChar(c) ==
    CASE c = "A" -> "a" [] c = "B" -> "b" [] c = "C" -> "c" [] c = "D" -> "d"
      [] c = "E" -> "e" [] c = "F" -> "f" [] c = "G" -> "g" [] c = "H" -> "h"
      [] c = "I" -> "i" [] c = "J" -> "j" [] c = "K" -> "k" [] c = "L" -> "l"
      [] c = "M" -> "m" [] c = "N" -> "n" [] c = "O" -> "o" [] c = "P" -> "p"
      [] c = "Q" -> "q" [] c = "R" -> "r" [] c = "S" -> "s" [] c = "T" -> "t"
      [] c = "U" -> "u" [] c = "V" -> "v" [] c = "W" -> "w" [] c = "X" -> "x"
      [] c = "Y" -> "y" [] c = "Z" -> "z" [] OTHER -> c

\* str.lower()
Lower(s) == [i \in 1..Len(s) |-> LowerChar(s[i])]

\* Python truthiness of an optional str: None and "" are falsy.
Truthy(s) == s # None /\ s # <<>>

\* `a or b`
PyOr(a, b) == IF Truthy(a) THEN a ELSE b

\* sum(xs) over a sequence of integers
RECURSIVE SumSeq(_)
SumSeq(xs) == IF xs = <<>> THEN 0 ELSE xs[1] + SumSeq(Tail(xs))

\* max(a, b)
Max(a, b) == IF a >= b THEN a ELSE b

\* --------------------------------------------------------- transition styles

S_fade      == <<"f","a","d","e">>
S_fadeblack == <<"f","a","d","e","b","l","a","c","k">>
S_crossfade == <<"c","r","o","s","s","f","a","d","e">>
S_slide     == <<"s","l","i","d","e">>
S_zoom      == <<"z","o","o","m">>
S_wipe      == <<"w","i","p","e">>
S_cut       == <<"c","u","t">>
S_auto      == <<"a","u","t","o">>
S_slideleft == <<"s","l","i","d","e","l","e","f","t">>
S_wipeleft  == <<"w","i","p","e","l","e","f","t">>

TRANSITION_NAME_MAP ==
    (S_fade :> S_fade) @@ (S_fadeblack :> S_fadeblack) @@ (S_crossfade :> S_fade)
    @@ (S_slide :> S_slideleft) @@ (S_zoom :> S_zoom) @@ (S_wipe :> S_wipeleft)
    @@ (S_cut :> S_cut) @@ (S_auto :> S_fade)

\* The style looked up as given, without lower-casing.
TransitionKey_Verbatim(name) == PyOr(name, S_fade)

\* The lower-cased style that resolve_transition_name looks up.
TransitionKey(name) == Lower(PyOr(name, S_fade))

\* resolve_transition_name raises ValueError
resolve_transition_name_raises(name) == TransitionKey(name) \notin DOMAIN TRANSITION_NAME_MAP

\* resolve_transition_name's return value (when it does not raise)
resolve_transition_name(name) == TRANSITION_NAME_MAP[TransitionKey(name)]

\* ------------------------------------------------------ filter-graph labels

\* "[idx:v]" / "[idx:a]": stream s of encoder input idx
InLabel(idx, s) == [t |-> "in", i |-> idx, s |-> s]
\* "[v<idx>]" / "[a<idx>]": an intermediate label of the fold
MidLabel(idx, s) == [t |-> "mid", i |-> idx, s |-> s]
\* "[vout]" / "[aout]"
OutLabel(s) == [t |-> "out", i |-> 0, s |-> s]

\* "<inputs>concat=n=<n>:v=<v>:a=<a><out>"
ConcatFilter(inputs, n, v, a, out) ==
    [kind |-> "concat", inputs |-> inputs, n |-> n, v |-> v, a |-> a, out |-> out]

\* "<in1><in2>xfade=transition=<tr>:duration=<d>:offset=<off><out>"
XfadeFilter(in1, in2, tr, d, off, out) ==
    [kind |-> "xfade", inputs |-> <<in1, in2>>, transition |-> tr,
     duration |-> d, offset |-> off, out |-> out]

\* "<in1><in2>acrossfade=d=<d><out>"
AcrossfadeFilter(in1, in2, d, out) ==
    [kind |-> "acrossfade", inputs |-> <<in1, in2>>, d |-> d, out |-> out]

\* ------------------------------------------------- build_transition_filters

\* FoldStep with the running offset itself floored before it is advanced.
FoldStep_AdvancesClampedOffset(st, durations, ffmpeg_transition, duration_seconds, idx) ==
    LET out_video   == MidLabel(idx, "v")
        out_audio   == MidLabel(idx, "a")
        safe_offset == Max(st.offset, 0)
    IN [filters |-> st.filters
                    \o << XfadeFilter(st.prev_video, InLabel(idx, "v"), ffmpeg_transition,
                                      duration_seconds, safe_offset, out_video),
                          AcrossfadeFilter(st.prev_audio, InLabel(idx, "a"),
                                           duration_seconds, out_audio) >>,
        prev_video |-> out_video,
        prev_audio |-> out_audio,
        offset |-> safe_offset + durations[idx + 1] - duration_seconds]

\* FoldStep that writes the running offset into the filter without max(offset, 0).
FoldStep_NoFloor(st, durations, ffmpeg_transition, duration_seconds, idx) ==
    LET out_video   == MidLabel(idx, "v")
        out_audio   == MidLabel(idx, "a")
    IN [filters |-> st.filters
                    \o << XfadeFilter(st.prev_video, InLabel(idx, "v"), ffmpeg_transition,
                                      duration_seconds, st.offset, out_video),
                          AcrossfadeFilter(st.prev_audio, InLabel(idx, "a"),
                                           duration_seconds, out_audio) >>,
        prev_video |-> out_video,
        prev_audio |-> out_audio,
        offset |-> st.offset + durations[idx + 1] - duration_seconds]

\* FoldStep that leaves prev_video / prev_audio as they were.
FoldStep_KeepsPreviousLabels(st, durations, ffmpeg_transition, duration_seconds, idx) ==
    LET out_video   == MidLabel(idx, "v")
        out_audio   == MidLabel(idx, "a")
        safe_offset == Max(st.offset, 0)
    IN [filters |-> st.filters
                    \o << XfadeFilter(st.prev_video, InLabel(idx, "v"), ffmpeg_transition,
                                      duration_seconds, safe_offset, out_video),
                          AcrossfadeFilter(st.prev_audio, InLabel(idx, "a"),
                                           duration_seconds, out_audio) >>,
        prev_video |-> st.prev_video,
        prev_audio |-> st.prev_audio,
        offset |-> st.offset + durations[idx + 1] - duration_seconds]

\* One iteration of the fold loop (idx = 1 .. len(durations)-1).
FoldStep(st, durations, ffmpeg_transition, duration_seconds, idx) ==
    LET out_video   == MidLabel(idx, "v")
        out_audio   == MidLabel(idx, "a")
        safe_offset == Max(st.offset, 0)
    IN [filters |-> st.filters
                    \o << XfadeFilter(st.prev_video, InLabel(idx, "v"), ffmpeg_transition,
                                      duration_seconds, safe_offset, out_video),
                          AcrossfadeFilter(st.prev_audio, InLabel(idx, "a"),
                                           duration_seconds, out_audio) >>,
        prev_video |-> out_video,
        prev_audio |-> out_audio,
        offset |-> st.offset + durations[idx + 1] - duration_seconds]

\* The loop `for idx in range(1, len(durations))`, run up to and including idx = upto.
RECURSIVE FoldLoop(_, _, _, _)
FoldLoop(durations, ffmpeg_transition, duration_seconds, upto) ==
    IF upto = 0
    THEN [filters |-> <<>>,
          prev_video |-> InLabel(0, "v"),
          prev_audio |-> InLabel(0, "a"),
          offset |-> durations[1] - duration_seconds]
    ELSE FoldStep(FoldLoop(durations, ffmpeg_transition, duration_seconds, upto - 1),
                  durations, ffmpeg_transition, duration_seconds, upto)

\* The concat branch taken for "cut" only, a single duration falling through to the fold.
IsConcatBranch_CutOnly(durations, transition) == transition = S_cut

\* The condition of the concat branch: `len(durations) == 1 or transition == "cut"`.
IsConcatBranch(durations, transition) == Len(durations) = 1 \/ transition = S_cut

\* build_transition_filters(durations, transition, duration_seconds).
\* status "error" is a raised ValueError; `offset` is the local running offset
\* when the function returns (0 where the fold is not run).
build_transition_filters(durations, transition, duration_seconds) ==
    IF durations = <<>>
    THEN [status |-> "error", error |-> "At least one segment duration is required",
          filters |-> <<>>, final_video |-> None, final_audio |-> None, offset |-> 0]
    ELSE IF IsConcatBranch(durations, transition)
    THEN [status |-> "ok", error |-> "",
          filters |-> << ConcatFilter([i \in 1..Len(durations) |-> InLabel(i - 1, "v")],
                                      Len(durations), 1, 0, OutLabel("v")),
                         ConcatFilter([i \in 1..Len(durations) |-> InLabel(i - 1, "a")],
                                      Len(durations), 0, 1, OutLabel("a")) >>,
          final_video |-> OutLabel("v"), final_audio |-> OutLabel("a"), offset |-> 0]
    ELSE IF resolve_transition_name_raises(transition)
    THEN [status |-> "error", error |-> "Unsupported transition",
          filters |-> <<>>, final_video |-> None, final_audio |-> None, offset |-> 0]
    ELSE LET st == FoldLoop(durations, resolve_transition_name(transition),
                            duration_seconds, Len(durations) - 1)
         IN [status |-> "ok", error |-> "",
             filters |-> st.filters,
             final_video |-> st.prev_video, final_audio |-> st.prev_audio,
             offset |-> st.offset]

\* -------------------------------------------------------------- file paths

\* The source-video identifier of the modelled job(s).
VideoId == "abc123"

\* An absent job identifier: the code only tests `if job_id`, so None and ""
\* behave alike.
NoJobId == ""

\* <root>/<youtube_id>
DirPath(root, youtube_id) == [root |-> root, id |-> youtube_id]

\* <root>/<youtube_id>/<stem>.mp4, the stem being the parts of `name` joined
\* and followed by the number n when n > 0 ("part" 2 is part2.mp4).
FilePath(root, youtube_id, name, n) == [root |-> root, id |-> youtube_id, name |-> name, n |-> n]

\* No path (a Python None where a path is expected).
NoPath == [root |-> "", id |-> "", name |-> <<>>, n |-> 0]

\* path.parent
Parent(path) == DirPath(path.root, path.id)

\* TRIM_ROOT/<youtube_id>/part<idx>.mp4
PartPath(youtube_id, idx) == FilePath("TRIM_ROOT", youtube_id, <<"part">>, idx)

\* MERGE_ROOT/<youtube_id>/<job_id>.mp4, or .../merged.mp4 without a job id
MergedPath(youtube_id, job_id) ==
    FilePath("MERGE_ROOT", youtube_id, <<IF job_id # NoJobId THEN job_id ELSE "merged">>, 0)

\* ------------------------------------------------------- sorting by position

\* The sort key `s.get("position", 0)`.
PositionKey(s) == IF "position" \in DOMAIN s THEN s["position"] ELSE 0

\* x inserted into the sorted list xs behind every element whose key is <= its own.
RECURSIVE InsertByPosition(_, _)
InsertByPosition(x, xs) ==
    IF xs = <<>> THEN <<x>>
    ELSE IF PositionKey(xs[Len(xs)]) <= PositionKey(x) THEN Append(xs, x)
    ELSE Append(InsertByPosition(x, SubSeq(xs, 1, Len(xs) - 1)), xs[Len(xs)])

\* The list left in the caller's order.
sorted_by_position_Unsorted(segments) == segments

\* sorted(segments, key=lambda s: s.get("position", 0)): Python's sort is stable.
RECURSIVE sorted_by_position(_)
sorted_by_position(segments) ==
    IF segments = <<>> THEN <<>>
    ELSE InsertByPosition(segments[Len(segments)],
                          sorted_by_position(SubSeq(segments, 1, Len(segments) - 1)))

\* ------------------------------------------------------------ merge_command

\* _extract_duration raises ValueError
_extract_duration_raises(segment) ==
    /\ "duration" \notin DOMAIN segment
    /\ ~("start" \in DOMAIN segment /\ "end" \in DOMAIN segment)

\* _extract_duration's return value (when it does not raise)
_extract_duration(segment) ==
    IF "duration" \in DOMAIN segment THEN segment["duration"]
    ELSE segment["end"] - segment["start"]

\* ["ffmpeg", "-y", "-i", input, "-c", "copy", output]
CopyCommand(input, output) ==
    [kind |-> "copy", inputs |-> <<input>>, filter_complex |-> <<>>, maps |-> <<>>,
     vcodec |-> "copy", acodec |-> "copy", output |-> output]

\* The filter command mapping the streams of the first input instead of the
\* final labels of the filter graph.
FilterCommand_MapsFirstInput(inputs, filters, final_video, final_audio, output) ==
    [kind |-> "filter", inputs |-> inputs, filter_complex |-> filters,
     maps |-> <<InLabel(0, "v"), InLabel(0, "a")>>,
     vcodec |-> "libx264", acodec |-> "aac", output |-> output]

\* ["ffmpeg", "-y", "-i", p1, ..., "-filter_complex", ";".join(filters),
\*  "-map", final_video, "-map", final_audio, "-c:v", "libx264", "-c:a", "aac", output]
FilterCommand(inputs, filters, final_video, final_audio, output) ==
    [kind |-> "filter", inputs |-> inputs, filter_complex |-> filters,
     maps |-> <<final_video, final_audio>>,
     vcodec |-> "libx264", acodec |-> "aac", output |-> output]

NoCommand == [kind |-> "none"]

\* The emptiness test left out.
NoSegments_Never(segments) == FALSE

\* `not segments`
NoSegments(segments) == segments = <<>>

\* merge_command(segments, transition, transition_duration, output_path), called
\* with an output path as merge_with_transitions does.  status "error" is a
\* raised ValueError; mkdir tells whether output_path.parent was created before
\* the function returned or raised.
merge_command(segments, transition, transition_duration, output_path) ==
    IF NoSegments(segments)
    THEN [status |-> "error", error |-> "At least one segment is required to merge",
          mkdir |-> FALSE, command |-> NoCommand, output_path |-> output_path]
    ELSE
    LET sorted_segments == sorted_by_position(segments)
        input_paths == [i \in 1..Len(sorted_segments) |-> sorted_segments[i]["path"]]
    IN  IF \E i \in 1..Len(sorted_segments) : _extract_duration_raises(sorted_segments[i])
        THEN [status |-> "error", error |-> "Each segment must include a duration or start/end",
              mkdir |-> FALSE, command |-> NoCommand, output_path |-> output_path]
        ELSE
        LET durations == [i \in 1..Len(sorted_segments) |-> _extract_duration(sorted_segments[i])]
        IN  IF Len(input_paths) = 1
            THEN [status |-> "ok", error |-> "", mkdir |-> TRUE,
                  command |-> CopyCommand(input_paths[1], output_path),
                  output_path |-> output_path]
            ELSE
            LET built == build_transition_filters(durations, transition, transition_duration)
            IN  IF built.status = "error"
                THEN [status |-> "error", error |-> built.error,
                      mkdir |-> TRUE, command |-> NoCommand, output_path |-> output_path]
                ELSE [status |-> "ok", error |-> "", mkdir |-> TRUE,
                      command |-> FilterCommand(input_paths, built.filters, built.final_video,
                                                built.final_audio, output_path),
                      output_path |-> output_path]

\* ------------------------------------------------------------ trim commands

\* A partial download, under the downloader's temporary name.
PartialSourcePath(youtube_id) ==
    FilePath("DOWNLOAD_ROOT", youtube_id, <<youtube_id, ".mp4.part">>, 0)

\* The downloaded source file handed to the Trimmer.
SourcePath(youtube_id) == FilePath("DOWNLOAD_ROOT", youtube_id, <<youtube_id>>, 0)

\* The existence test left out.
OutputMissing_Never(output_path, fs) == FALSE

\* `not output_path.exists()` after the external invocation
OutputMissing(output_path, fs) == output_path \notin fs

\* The re-encode command asking for a stream copy again instead of libx264 / aac.
ReencodeCommand_StreamCopy(input_path, start, end, output_path) ==
    [kind |-> "reencode", input |-> input_path, start |-> start, end |-> end,
     vcodec |-> "copy", acodec |-> "copy", output |-> output_path]

\* ["ffmpeg", "-y", "-i", input, "-ss", start, "-to", end, "-c", "copy", output]
TrimCopyCommand(input_path, start, end, output_path) ==
    [kind |-> "copy", input |-> input_path, start |-> start, end |-> end,
     vcodec |-> "copy", acodec |-> "copy", output |-> output_path]

\* ["ffmpeg", "-y", "-i", input, "-ss", start, "-to", end,
\*  "-c:v", "libx264", "-c:a", "aac", output]
ReencodeCommand(input_path, start, end, output_path) ==
    [kind |-> "reencode", input |-> input_path, start |-> start, end |-> end,
     vcodec |-> "libx264", acodec |-> "aac", output |-> output_path]

\* --------------------------------------------------------- highlight staging

\* target_path of stage_highlight:
\* HIGHLIGHT_ROOT/<youtube_id>/<job_id or youtube_id>_highlight.mp4
HighlightPath(youtube_id, job_id) ==
    FilePath("HIGHLIGHT_ROOT", youtube_id,
             <<IF job_id # NoJobId THEN job_id ELSE youtube_id, "_highlight">>, 0)

\* merged_file.exists() without looking at the filesystem.
MergedExists_Always(merged_path, fs) == TRUE

\* merged_file.exists() in stage_highlight
MergedExists(merged_path, fs) == merged_path \in fs

\* The merged file moved, not copied, to the highlight area.
FilesAfterCopy2_Moved(fs, src, dst) == (fs \ {src}) \cup {dst}

\* shutil.copy2(merged_file, target_path)
FilesAfterCopy2(fs, src, dst) == fs \cup {dst}

\* The watermark written over its own input.
WatermarkedPath_InPlace(video_path) == video_path

\* output_path of _apply_watermark: video_path with "_watermarked" added to its stem
WatermarkedPath(video_path) == [video_path EXCEPT !.name = Append(@, "_watermarked")]

\* The staging roots without MERGE_ROOT.
CleanupRoots_WithoutMergeRoot == <<"DOWNLOAD_ROOT", "TRIM_ROOT">>

\* The highlight root walked as well.
CleanupRoots_WithHighlightRoot ==
    <<"DOWNLOAD_ROOT", "TRIM_ROOT", "MERGE_ROOT", "HIGHLIGHT_ROOT">>

\* The roots _cleanup_intermediate_assets walks, in order.
CleanupRoots == <<"DOWNLOAD_ROOT", "TRIM_ROOT", "MERGE_ROOT">>

\* The directories _cleanup_intermediate_assets removes: the candidates that exist.
CleanupCandidates(youtube_id, existing) ==
    SelectSeq([i \in 1..Len(CleanupRoots) |-> DirPath(CleanupRoots[i], youtube_id)],
              LAMBDA d : d \in existing)

\* shutil.rmtree of the directories ds: the files left.
FilesAfterRmtree(fs, ds) == { f \in fs : Parent(f) \notin ds }

\* public_url = None
NoUrl == [bucket |-> "", object_path |-> [id |-> "", name |-> <<>>]]

\* f"{youtube_id}/{video_path.name}" in bucket: the public URL of the uploaded object
PublicUrl(bucket, youtube_id, video_path) ==
    [bucket |-> bucket, object_path |-> [id |-> youtube_id, name |-> video_path.name]]

\* ---------------------------------------------------------- upload publisher

\* timedelta(seconds=30) in _token_expired
ExpiryMarginSeconds == 30

\* The default of token_payload.get("expires_in", 3600)
DefaultExpiresIn == 3600

\* dict.get(key, default)
Get(d, key, default) == IF key \in DOMAIN d THEN d[key] ELSE default

\* An expiry stamp is absent (None, "" or no such key), a string that
\* datetime.fromisoformat rejects, or a timezone-aware instant, counted in
\* seconds from the moment _token_expired reads the clock.
NoExpiry == [kind |-> "absent", t |-> 0]
BadExpiry == [kind |-> "unparseable", t |-> 0]
ExpiryAt(t) == [kind |-> "aware", t |-> t]

\* _token_expired with `<` for `<=`.
_token_expired_StrictlyBefore(expires_at) ==
    IF expires_at.kind = "absent" THEN FALSE
    ELSE IF expires_at.kind = "unparseable" THEN FALSE
    ELSE expires_at.t < 0 + ExpiryMarginSeconds

\* _token_expired(expires_at); the clock reads 0.
_token_expired(expires_at) ==
    IF expires_at.kind = "absent" THEN FALSE
    ELSE IF expires_at.kind = "unparseable" THEN FALSE
    ELSE expires_at.t <= 0 + ExpiryMarginSeconds

\* What _refresh_access_token returns for the token endpoint's JSON `payload`.
RefreshedTokens(payload, refresh_token) ==
    ("expires_at" :> ExpiryAt(0 + Get(payload, "expires_in", DefaultExpiresIn)))
    @@ ("refresh_token" :> Get(payload, "refresh_token", refresh_token))
    @@ payload

\* The merge with the stored token set taking precedence.
MergeDicts_TokensWin(tokens, refreshed) == tokens @@ refreshed

\* {**tokens, **refreshed}
MergeDicts(tokens, refreshed) == refreshed @@ tokens

T_shorts     == <<"s","h","o","r","t","s">>
T_hashshorts == <<"#","s","h","o","r","t","s">>

\* The tag list with the tags compared as given, not lower-cased.
UploadTags_CaseSensitive(metadata) ==
    LET tags == Get(metadata, "tags", <<>>)
        has(t) == \E i \in 1..Len(tags) : tags[i] = t
    IN IF Get(metadata, "shorts_mode", FALSE) /\ ~has(T_shorts) /\ ~has(T_hashshorts)
       THEN Append(tags, T_shorts)
       ELSE tags

\* The tag list _initiate_resumable_upload puts into the request body.
UploadTags(metadata) ==
    LET tags == Get(metadata, "tags", <<>>)
        lowered == [i \in 1..Len(tags) |-> Lower(tags[i])]
        has(t) == \E i \in 1..Len(lowered) : lowered[i] = t
    IN IF Get(metadata, "shorts_mode", FALSE) /\ ~has(T_shorts) /\ ~has(T_hashshorts)
       THEN Append(tags, T_shorts)
       ELSE tags

\* metadata.setdefault("shorts_mode", shorts_mode)
WithShortsDefault(metadata, shorts_mode) == metadata @@ ("shorts_mode" :> shorts_mode)

\* source.exists() without looking at the filesystem.
SourceExists_Always(file_path, fs) == TRUE

\* source.exists()
SourceExists(file_path, fs) == file_path \in fs

\* The initiation answers the Publisher goes on from, with the missing
\* Location accepted.
initiate_raises_OnlyHttpError(answer) == answer = "http_error"

\* _initiate_resumable_upload raises: raise_for_status on a non-success
\* status, RuntimeError on a missing Location header.
initiate_raises(answer) == answer \in {"http_error", "no_location"}

UPLOAD_ENDPOINT ==
    "https://www.googleapis.com/upload/youtube/v3/videos?uploadType=resumable&part=snippet,status"

\* The PUT of _upload_video sent to the initiation endpoint instead of the
\* session location.
UploadRequest_InitiationEndpoint(upload_url, file_path, access_token) ==
    [kind |-> "upload", url |-> UPLOAD_ENDPOINT, access_token |-> access_token,
     file |-> file_path]

\* The PUT of _upload_video.
UploadRequest(upload_url, file_path, access_token) ==
    [kind |-> "upload", url |-> upload_url, access_token |-> access_token,
     file |-> file_path]

\* f"https://youtu.be/{video_id}"
PlaybackUrl(video_id) == <<"https://youtu.be/", video_id>>

\* The staging directories of the source video and the files in them.
StagedDownload == [d |-> DirPath("DOWNLOAD_ROOT", VideoId), f |-> {SourcePath(VideoId)}]
StagedTrim == [d |-> DirPath("TRIM_ROOT", VideoId),
               f |-> { PartPath(VideoId, k) : k \in 1..MaxSegments }]

\* ------------------------------------------------------------ input domains

\* Segment durations, in half seconds (0.5 s .. 7.0 s).
SampleDurations == {1, 3, 8, 10, 14}

\* Transition durations, in half seconds (1.0 s is the default, 1.5 s the tests').
SampleTransitionDurations == {2, 3, 5}

KnownStyles == DOMAIN TRANSITION_NAME_MAP

\* Styles as a caller may spell them: the known ones, some in another letter
\* case, an unknown one, the empty string and None.
SampleStyles ==
    KnownStyles
    \cup { <<"C","u","t">>, <<"C","U","T">>, <<"F","a","d","e">>, <<"S","L","I","D","E">> }
    \cup { <<"b","o","g","u","s">>, <<>>, None }

SeqsUpTo(S, n) == UNION { [1..k -> S] : k \in 0..n }

\* Transition durations handed to the Merger (1.0 s, the default, and 1.5 s).
SampleMergeTransitionDurations == {2, 3}

\* Styles handed to the Merger.
SampleMergeStyles == { S_fade, S_slide, S_cut, <<"C","u","t">>, <<"b","o","g","u","s">> }

JobIds == { NoJobId, "job-1" }

\* The identifier of a second job on the same source video.
OtherJobId == "job-2"

\* The start time, in half seconds, of the segment given i-th by the caller.
SegmentStart(i) == 20 * i

\* Its length in half seconds: 1.5 s, 2.5 s, 3.5 s, ... (distinct per segment, so
\* the order of a duration list is observable).
SegmentLength(i) == 2 * i + 1

\* The i-th segment descriptor of a merge call: it carries its path, its
\* position when withPosition, and its duration as the key "duration"
\* (shape "duration"), as "start"/"end" (shape "startend") or not at all ("none").
MergeSegment(i, withPosition, position, shape) ==
    ("path" :> PartPath(VideoId, i))
    @@ (IF withPosition THEN ("position" :> position) ELSE <<>>)
    @@ (CASE shape = "duration" -> ("duration" :> SegmentLength(i))
          [] shape = "startend" -> ("start" :> SegmentStart(i))
                                   @@ ("end" :> SegmentStart(i) + SegmentLength(i))
          [] OTHER -> <<>>)

\* The segment lists of the modelled merge calls: up to MaxSegments segments in
\* every order of positions 0..MaxPosition (ties included), all of one shape
\* except at most one segment that carries no duration; or no segment with a
\* position key at all.
MergeSegmentLists ==
    { [i \in 1..Len(ps) |-> MergeSegment(i, TRUE, ps[i], IF i = bad THEN "none" ELSE shape)] :
        ps \in SeqsUpTo(0..MaxPosition, MaxSegments),
        shape \in {"duration", "startend"},
        bad \in 0..MaxSegments }
    \cup
    { [i \in 1..n |-> MergeSegment(i, FALSE, 0, "duration")] : n \in 1..MaxSegments }

\* The identifier of the segment given i-th by the caller.
SegmentId(i) == <<"seg", i>>

\* The i-th segment descriptor of a trim call: start, end, the position when
\* withPosition, and the identifier (None when the segment has none).
TrimSegment(i, withPosition, position, withId) ==
    ("start" :> SegmentStart(i)) @@ ("end" :> SegmentStart(i) + SegmentLength(i))
    @@ ("id" :> IF withId THEN SegmentId(i) ELSE None)
    @@ (IF withPosition THEN ("position" :> position) ELSE <<>>)

\* The segment lists of the modelled trim calls: up to MaxSegments segments in
\* every order of positions 0..MaxPosition (ties included), all with an
\* identifier except at most one; or no segment with a position key at all.
TrimSegmentLists ==
    { [i \in 1..Len(ps) |-> TrimSegment(i, TRUE, ps[i], i # noid)] :
        ps \in SeqsUpTo(0..MaxPosition, MaxSegments),
        noid \in {0, 1, 2} }
    \cup
    { [i \in 1..n |-> TrimSegment(i, FALSE, 0, TRUE)] : n \in 1..MaxSegments }

\* Expiry stamps of the stored token: absent, unparseable, and instants from
\* five minutes ago to one hour ahead, on both sides of the 30-second margin.
SampleExpiries ==
    { NoExpiry, BadExpiry } \cup { ExpiryAt(t) : t \in {-300, 0, 29, 30, 31, 3600} }

\* The token sets handed to the Publisher: the stored row of the user (the API
\* refuses to enqueue a publish without one), an access token with an expiry
\* and with or without a refresh token ("" stands for None).
SampleTokens ==
    { ("access_token" :> "old") @@ ("refresh_token" :> r) @@ ("expires_at" :> e) :
        r \in {"", "refresh"}, e \in SampleExpiries }

\* (client_id, client_secret) pairs: both, or one of them missing.
SampleCredentials ==
    { [client_id |-> "client", client_secret |-> "secret"],
      [client_id |-> "", client_secret |-> "secret"],
      [client_id |-> "client", client_secret |-> ""] }

\* JSON bodies of a successful token-endpoint response.
SampleRefreshPayloads ==
    { a @@ r @@ e :
        a \in { <<>>, ("access_token" :> "new") },
        r \in { <<>>, ("refresh_token" :> "rotated") },
        e \in { <<>>, ("expires_in" :> 7200) } }

\* Session locations the initiation endpoint may answer with.
SampleLocations == { "https://upload.example.com/resume", "https://upload.example.com/other" }

T_tag == <<"s","e","r","m","o","n">>

\* metadata dicts: a tag list, and possibly a shorts_mode key of their own.
SampleMetadata ==
    { ("tags" :> tags) @@ sm :
        tags \in { <<>>, <<T_tag>>, << <<"#","S","h","o","r","t","s">> >>,
                   << T_tag, <<"S","H","O","R","T","S">> >> },
        sm \in { <<>>, ("shorts_mode" :> TRUE), ("shorts_mode" :> FALSE) } }

\* ------------------------------------------------------------------- state

VARIABLES
    files,         \* the files that exist (paths)
    dirs,          \* the directories that exist
    c_pc,          \* Compositor call: "call" before, "returned" / "raised" after
    c_durations,   \* argument durations
    c_transition,  \* argument transition
    c_td,          \* argument duration_seconds
    c_result,      \* what build_transition_filters gave
    m_pc,          \* merge_with_transitions: "idle", "call", "run", "returned", "raised"
    m_args,        \* its arguments
    m_command,     \* the encoder command merge_command built
    m_invocations, \* the commands handed to _run_ffmpeg, in order
    m_runs,        \* what each of them did: its exit status, whether it wrote its output
    m_result,      \* the returned path, or the error raised
    t_pc,          \* trim_segments: "idle", "call", "copy", "reencode", "writeback",
                   \*   "returned", "raised"
    t_args,        \* its arguments
    t_sorted,      \* sorted_segments
    t_idx,         \* the loop index idx (1-based, as in enumerate(..., start=1))
    t_paths,       \* segment_paths
    t_invocations, \* the _run_ffmpeg calls so far, in order, each with its exit status
    t_db,          \* the clip_segments updates executed, in order
    t_result,      \* the returned path list, or the error raised
    h_pc,          \* generate_highlight: "idle", "call", "watermark", "upload", "cleanup",
                   \*   "returned", "raised"
    h_args,        \* its arguments (client and bucket as resolved from the environment)
    h_staged,      \* staged_path
    h_public_url,  \* public_url
    h_calls,       \* encoder, storage, persistence and rmtree calls made, in order
    h_result,      \* the returned location, or the error raised
    p_pc,          \* publish_to_youtube: "idle", "call", "refresh", "initiate", "upload",
                   \*   "persist", "returned", "raised"
    p_args,        \* its arguments (the client as resolved from the environment)
    p_active,      \* active_token
    p_upload_url,  \* upload_url
    p_video_id,    \* video_id
    p_calls,       \* HTTP requests and persistence writes made, in order
    p_result,      \* the returned dict, or the error raised
    d_pc,          \* download_video / cleanup_video: "idle", "call", "download",
                   \*   "returned", "raised", "cleaned"
    d_args,        \* the arguments of download_video
    d_calls,       \* the calls of ydl.download and what each did
    d_result,      \* the returned value, or the error raised
    a_pc,          \* the API request in hand: "idle", "segments", "publish", "done"
    a_req,         \* its validated payload (as sent, for a payload that is refused)
    a_db,          \* the tables videos, clip_jobs, clip_segments and youtube_tokens
    a_env,         \* the environment of the API process
    a_calls,       \* the repository writes and queue calls made, in order
    a_queue,       \* the tasks sent to the queue, in order
    a_resp         \* the response: its status code and body

fsVars == <<files, dirs>>
compVars == <<c_pc, c_durations, c_transition, c_td, c_result>>
mergeVars == <<m_pc, m_args, m_command, m_invocations, m_runs, m_result>>
trimVars == <<t_pc, t_args, t_sorted, t_idx, t_paths, t_invocations, t_db, t_result>>

hlVars == <<h_pc, h_args, h_staged, h_public_url, h_calls, h_result>>

pubVars == <<p_pc, p_args, p_active, p_upload_url, p_video_id, p_calls, p_result>>

dlVars == <<d_pc, d_args, d_calls, d_result>>

apiVars == <<a_pc, a_req, a_db, a_env, a_calls, a_queue, a_resp>>

vars == <<fsVars, compVars, mergeVars, trimVars, hlVars, pubVars, dlVars, apiVars>>

NoResult == [status |-> "none"]

\* ------------------------------------------- components that are not running

FsEmpty ==
    /\ files = {}
    /\ dirs = {}

MergeIdle ==
    /\ m_pc = "idle"
    /\ m_args = [youtube_id |-> VideoId, segments |-> <<>>, transition |-> None,
                 job_id |-> NoJobId, transition_duration |-> 0]
    /\ m_command = NoCommand
    /\ m_invocations = <<>>
    /\ m_runs = <<>>
    /\ m_result = NoResult

TrimIdle ==
    /\ t_pc = "idle"
    /\ t_args = [youtube_id |-> VideoId, input_path |-> SourcePath(VideoId),
                 segments |-> <<>>, supabase_client |-> FALSE]
    /\ t_sorted = <<>>
    /\ t_idx = 0
    /\ t_paths = <<>>
    /\ t_invocations = <<>>
    /\ t_db = <<>>
    /\ t_result = NoResult

NoBucket == ""

HlIdle ==
    /\ h_pc = "idle"
    /\ h_args = [youtube_id |-> VideoId, merged_path |-> MergedPath(VideoId, NoJobId),
                 job_id |-> NoJobId, bucket |-> NoBucket, supabase_client |-> FALSE]
    /\ h_staged = NoPath
    /\ h_public_url = NoUrl
    /\ h_calls = <<>>
    /\ h_result = NoResult

NoUploadUrl == ""
NoVideoId == ""

PubIdle ==
    /\ p_pc = "idle"
    /\ p_args = [youtube_id |-> VideoId, file_path |-> NoPath, metadata |-> <<>>,
                 tokens |-> <<>>, user_id |-> "user-1", job_id |-> NoJobId,
                 client_id |-> "", client_secret |-> "",
                 supabase_client |-> FALSE, shorts_mode |-> FALSE]
    /\ p_active = <<>>
    /\ p_upload_url = NoUploadUrl
    /\ p_video_id = NoVideoId
    /\ p_calls = <<>>
    /\ p_result = NoResult

DlIdle ==
    /\ d_pc = "idle"
    /\ d_args = [youtube_url |-> "", youtube_id |-> VideoId]
    /\ d_calls = <<>>
    /\ d_result = NoResult

NoRequest == [endpoint |-> "none"]
NoResponse == [status |-> "none"]

ApiIdle ==
    /\ a_pc = "idle"
    /\ a_req = NoRequest
    /\ a_db = [videos |-> {}, clip_jobs |-> {}, clip_segments |-> {}, youtube_tokens |-> {}]
    /\ a_env = [HIGHLIGHT_ROOT |-> FALSE]
    /\ a_calls = <<>>
    /\ a_queue = <<>>
    /\ a_resp = NoResponse

\* ------------------------------------------------- Compositor specification

CompIdle ==
    /\ c_pc = "idle"
    /\ c_durations = <<>>
    /\ c_transition = None
    /\ c_td = 0
    /\ c_result = NoResult

CompInit ==
    /\ c_pc = "call"
    /\ c_durations \in SeqsUpTo(SampleDurations, MaxSegments)
    /\ c_transition \in SampleStyles
    /\ c_td \in SampleTransitionDurations
    /\ c_result = NoResult

\* A direct call of build_transition_filters that returns.
CompReturn ==
    /\ c_pc = "call"
    /\ c_result' = build_transition_filters(c_durations, c_transition, c_td)
    /\ c_result'.status = "ok"
    /\ c_pc' = "returned"
    /\ UNCHANGED <<c_durations, c_transition, c_td>>
    /\ UNCHANGED <<fsVars, mergeVars, trimVars, hlVars, pubVars, dlVars, apiVars>>

\* A direct call of build_transition_filters that raises ValueError.
CompRaise ==
    /\ c_pc = "call"
    /\ c_result' = build_transition_filters(c_durations, c_transition, c_td)
    /\ c_result'.status = "error"
    /\ c_pc' = "raised"
    /\ UNCHANGED <<c_durations, c_transition, c_td>>
    /\ UNCHANGED <<fsVars, mergeVars, trimVars, hlVars, pubVars, dlVars, apiVars>>

CompNext == CompReturn \/ CompRaise

CompSpecInit == CompInit /\ FsEmpty /\ MergeIdle /\ TrimIdle /\ HlIdle /\ PubIdle /\ DlIdle /\ ApiIdle

SpecCompositor == CompSpecInit /\ [][CompNext]_vars

\* ------------------------------------------------ Compositor: claims C5-C8

\* The style is one of the enumerated styles, in any letter case.
StyleIsKnown(style) == style # None /\ Lower(style) \in KnownStyles

VideoFilters(result) == SelectSeq(result.filters, LAMBDA f : f.kind = "xfade")
AudioFilters(result) == SelectSeq(result.filters, LAMBDA f : f.kind = "acrossfade")

\* d[1] + ... + d[i]
PrefixSum(d, i) == SumSeq(SubSeq(d, 1, i))

\* The call is one the fold rule covers: N >= 2 and a known style other than "cut".
FoldCase == Len(c_durations) >= 2 /\ StyleIsKnown(c_transition) /\ c_transition # S_cut

\* C5: for N >= 2 durations and a style other than "cut", build_transition_filters
\* returns exactly N-1 xfade and N-1 acrossfade filters (and nothing else), and
\* the running offset after the fold is sum(durations) - N * transitionDuration.
C5_FilterCountsAndFinalOffset ==
    (c_pc # "call" /\ FoldCase) =>
        /\ c_pc = "returned"
        /\ Len(VideoFilters(c_result)) = Len(c_durations) - 1
        /\ Len(AudioFilters(c_result)) = Len(c_durations) - 1
        /\ Len(c_result.filters) = 2 * (Len(c_durations) - 1)
        /\ c_result.offset = SumSeq(c_durations) - Len(c_durations) * c_td

\* C5 witness: a three-segment slide whose final running offset is negative
\* (so the final offset is the unclamped sum).
C5_Witness ==
    /\ c_pc = "returned"
    /\ Len(c_durations) = 3
    /\ c_transition = S_slide
    /\ c_result.offset < 0
    /\ Len(VideoFilters(c_result)) = 2

\* C6: the offset written into the i-th xfade filter is
\* max(d[0] + ... + d[i-1] - i * transitionDuration, 0), hence never negative;
\* the final labels are [v(N-1)] / [a(N-1)]; and durations [5.0, 7.0, 4.0] with
\* transition duration 1.5 give offsets 3.5 then 9.0 and labels [v2] / [a2].
C6_ClampedOffsetsAndFinalLabels ==
    (c_pc # "call" /\ FoldCase) =>
        /\ c_pc = "returned"
        /\ Len(VideoFilters(c_result)) = Len(c_durations) - 1
        /\ \A i \in 1..Len(VideoFilters(c_result)) :
              /\ VideoFilters(c_result)[i].offset = Max(PrefixSum(c_durations, i) - i * c_td, 0)
              /\ VideoFilters(c_result)[i].offset >= 0
        /\ c_result.final_video = MidLabel(Len(c_durations) - 1, "v")
        /\ c_result.final_audio = MidLabel(Len(c_durations) - 1, "a")
        /\ (c_durations = <<10, 14, 8>> /\ c_td = 3) =>
              /\ VideoFilters(c_result)[1].offset = 7
              /\ VideoFilters(c_result)[2].offset = 18
              /\ c_result.final_video = MidLabel(2, "v")
              /\ c_result.final_audio = MidLabel(2, "a")

\* C6 witness: a returned fold in which a negative running offset was floored:
\* the first segment is shorter than the transition, the second offset is positive.
C6_Witness ==
    /\ c_pc = "returned"
    /\ FoldCase
    /\ Len(c_durations) = 3
    /\ c_durations[1] - c_td < 0
    /\ VideoFilters(c_result)[1].offset = 0
    /\ VideoFilters(c_result)[2].offset > 0

\* The plain concat pair over n inputs.
ConcatPair(n) ==
    << ConcatFilter([i \in 1..n |-> InLabel(i - 1, "v")], n, 1, 0, OutLabel("v")),
       ConcatFilter([i \in 1..n |-> InLabel(i - 1, "a")], n, 0, 1, OutLabel("a")) >>

\* C7: for N = 1 with any transition, or N >= 1 with transition "cut",
\* build_transition_filters returns exactly the two concat filters over all N
\* inputs with final labels [vout] / [aout], whatever the transition duration.
C7_ConcatPairForSingleOrCut ==
    (c_pc # "call" /\ Len(c_durations) >= 1
        /\ (Len(c_durations) = 1 \/ c_transition = S_cut)) =>
        /\ c_pc = "returned"
        /\ Len(c_result.filters) = 2
        /\ c_result.filters = ConcatPair(Len(c_durations))
        /\ c_result.final_video = OutLabel("v")
        /\ c_result.final_audio = OutLabel("a")
        /\ \A td \in SampleTransitionDurations :
              LET other == build_transition_filters(c_durations, c_transition, td)
              IN /\ other.filters = c_result.filters
                 /\ other.final_video = c_result.final_video
                 /\ other.final_audio = c_result.final_audio

\* C7 witness: a single duration with a style that is not "cut" has returned.
C7_Witness ==
    /\ c_pc = "returned"
    /\ Len(c_durations) = 1
    /\ c_transition = S_wipe
    /\ c_result.filters[1].kind = "concat"

\* C8 (as claimed): whenever the style resolves to the effect "cut", the emitted
\* graph is the plain concat pair and holds no xfade / acrossfade filter.
C8_ResolvedCutBypassesCompositing ==
    (c_pc # "call" /\ Len(c_durations) >= 1
        /\ ~resolve_transition_name_raises(c_transition)
        /\ resolve_transition_name(c_transition) = S_cut) =>
        /\ c_pc = "returned"
        /\ c_result.filters = ConcatPair(Len(c_durations))
        /\ \A i \in 1..Len(c_result.filters) :
              c_result.filters[i].kind \notin {"xfade", "acrossfade"}

\* -------------------------------------------------------- Compositor: claim C40

\* The places (filter, input slot) of a graph where a label is consumed, and
\* the filters that produce it.
ConsumersOf(filters, label) ==
    { <<k, j>> \in (1..Len(filters)) \X (1..MaxSegments) :
        j <= Len(filters[k].inputs) /\ filters[k].inputs[j] = label }

ProducersOf(filters, label) == { k \in 1..Len(filters) : filters[k].out = label }

\* The label the i-th fold step consumes first: the first input for i = 1,
\* the previous step's output otherwise.
PreviousLabel(i, s) == IF i = 1 THEN InLabel(0, s) ELSE MidLabel(i - 1, s)

\* C40: for N >= 2 and a style other than "cut" the graph is a well-formed left
\* fold: the i-th video (audio) filter consumes the previous step's output
\* ([0:v] / [0:a] for i = 1) and input i and produces [v(i)] / [a(i)]; every
\* intermediate label is produced once and consumed once, every input
\* 0..N-1 is consumed once per stream, and only the final labels are left
\* unconsumed.
C40_GraphIsWellFormedLeftFold ==
    (c_pc # "call" /\ FoldCase) =>
        LET n == Len(c_durations)
            V == VideoFilters(c_result)
            A == AudioFilters(c_result)
            F == c_result.filters
            produced == { F[k].out : k \in 1..Len(F) }
        IN /\ c_pc = "returned"
           /\ Len(V) = n - 1 /\ Len(A) = n - 1 /\ Len(F) = 2 * (n - 1)
           /\ \A i \in 1..(n - 1) :
                 /\ V[i].inputs = <<PreviousLabel(i, "v"), InLabel(i, "v")>>
                 /\ V[i].out = MidLabel(i, "v")
                 /\ A[i].inputs = <<PreviousLabel(i, "a"), InLabel(i, "a")>>
                 /\ A[i].out = MidLabel(i, "a")
           /\ \A s \in {"v", "a"} :
                 /\ \A i \in 1..(n - 1) :
                       /\ Cardinality(ProducersOf(F, MidLabel(i, s))) = 1
                       /\ Cardinality(ConsumersOf(F, MidLabel(i, s)))
                             = IF i < n - 1 THEN 1 ELSE 0
                 /\ \A i \in 0..(n - 1) : Cardinality(ConsumersOf(F, InLabel(i, s))) = 1
           /\ { l \in produced : ConsumersOf(F, l) = {} }
                 = { c_result.final_video, c_result.final_audio }
           /\ produced = { MidLabel(i, s) : i \in 1..(n - 1), s \in {"v", "a"} }

\* C40 witness: a fold over MaxSegments durations has returned, its last
\* video filter consuming the output of the step before it.
C40_Witness ==
    /\ c_pc = "returned"
    /\ FoldCase
    /\ Len(c_durations) = MaxSegments
    /\ VideoFilters(c_result)[MaxSegments - 1].inputs
          = <<MidLabel(MaxSegments - 2, "v"), InLabel(MaxSegments - 1, "v")>>
    /\ Cardinality(ConsumersOf(c_result.filters, MidLabel(1, "a"))) = 1

\* -------------------------------------------------------- Compositor: claim C25

\* The effect the encoder is to be given for each style other than "cut".
MappedEffect ==
    (S_auto :> S_fade) @@ (S_crossfade :> S_fade) @@ (S_slide :> S_slideleft)
    @@ (S_wipe :> S_wipeleft) @@ (S_fade :> S_fade) @@ (S_fadeblack :> S_fadeblack)
    @@ (S_zoom :> S_zoom)

\* C25: for N >= 2 durations and a style that is, in any letter case, one of
\* auto, crossfade, slide, wipe, fade, fadeblack and zoom, the call returns N-1
\* xfade filters and each carries the mapped effect of the lower-cased style
\* (fade, fade, slideleft, wipeleft, fade, fadeblack, zoom); a style that is
\* not in lower case gives the very result of its lower-case spelling.
C25_StyleIsMappedCaseInsensitively ==
    (c_pc # "call" /\ Len(c_durations) >= 2 /\ c_transition # None
        /\ Lower(c_transition) \in DOMAIN MappedEffect) =>
        /\ c_pc = "returned"
        /\ Len(VideoFilters(c_result)) = Len(c_durations) - 1
        /\ \A i \in 1..Len(VideoFilters(c_result)) :
              VideoFilters(c_result)[i].transition = MappedEffect[Lower(c_transition)]
        /\ c_result = build_transition_filters(c_durations, Lower(c_transition), c_td)

\* C25 witness: the style "SLIDE" over three durations returned two xfade
\* filters with the effect slideleft.
C25_Witness ==
    /\ c_pc = "returned"
    /\ c_transition = <<"S","L","I","D","E">>
    /\ Len(c_durations) = 3
    /\ Len(VideoFilters(c_result)) = 2
    /\ \A i \in 1..2 : VideoFilters(c_result)[i].transition = S_slideleft

\* ----------------------------------------------------- Merger specification

MergeInit ==
    /\ m_pc = "call"
    /\ m_args \in [youtube_id : {VideoId},
                   segments : MergeSegmentLists,
                   transition : SampleMergeStyles,
                   job_id : JobIds,
                   transition_duration : SampleMergeTransitionDurations]
    /\ m_command = NoCommand
    /\ m_invocations = <<>>
    /\ m_runs = <<>>
    /\ m_result = NoResult
    /\ \E staged \in BOOLEAN :
          /\ files = IF staged THEN StagedDownload.f \cup StagedTrim.f ELSE {}
          /\ dirs = IF staged THEN {StagedDownload.d, StagedTrim.d} ELSE {}

\* What merge_with_transitions hands to merge_command.
MergeCommandOfArgs ==
    merge_command(m_args.segments, m_args.transition, m_args.transition_duration,
                  MergedPath(m_args.youtube_id, m_args.job_id))

\* merge_with_transitions up to its encoder invocation: merge_command returns a command.
MergeBuildCommand ==
    /\ m_pc = "call"
    /\ MergeCommandOfArgs.status = "ok"
    /\ m_command' = MergeCommandOfArgs.command
    /\ dirs' = dirs \cup {Parent(MergeCommandOfArgs.output_path)}
    /\ m_pc' = "run"
    /\ UNCHANGED <<files, m_args, m_invocations, m_runs, m_result>>
    /\ UNCHANGED <<compVars, trimVars, hlVars, pubVars, dlVars, apiVars>>

\* merge_command raises ValueError: merge_with_transitions ends without an invocation.
MergeCommandRaises ==
    /\ m_pc = "call"
    /\ MergeCommandOfArgs.status = "error"
    /\ dirs' = IF MergeCommandOfArgs.mkdir
               THEN dirs \cup {Parent(MergeCommandOfArgs.output_path)} ELSE dirs
    /\ m_result' = [status |-> "error", error |-> MergeCommandOfArgs.error]
    /\ m_pc' = "raised"
    /\ UNCHANGED <<files, m_args, m_command, m_invocations, m_runs>>
    /\ UNCHANGED <<compVars, trimVars, hlVars, pubVars, dlVars, apiVars>>

\* _run_ffmpeg(command) with check=True, then the existence test of the output:
\* the encoder exits with status 0 or not and has or has not written the output.
MergeRunFfmpeg ==
    /\ m_pc = "run"
    /\ \E exit_ok \in BOOLEAN, wrote \in BOOLEAN :
          /\ m_invocations' = Append(m_invocations, m_command)
          /\ m_runs' = Append(m_runs, [exit_ok |-> exit_ok, wrote |-> wrote])
          /\ files' = IF wrote THEN files \cup {m_command.output} ELSE files
          /\ IF ~exit_ok
             THEN /\ m_result' = [status |-> "error", error |-> "CalledProcessError"]
                  /\ m_pc' = "raised"
             ELSE IF OutputMissing(m_command.output, files')
             THEN /\ m_result' = [status |-> "error", error |-> "Merged output not found"]
                  /\ m_pc' = "raised"
             ELSE /\ m_result' = [status |-> "ok", path |-> m_command.output]
                  /\ m_pc' = "returned"
    /\ UNCHANGED <<dirs, m_args, m_command>>
    /\ UNCHANGED <<compVars, trimVars, hlVars, pubVars, dlVars, apiVars>>

MergeNext == MergeBuildCommand \/ MergeCommandRaises \/ MergeRunFfmpeg

MergeSpecInit == MergeInit /\ CompIdle /\ TrimIdle /\ HlIdle /\ PubIdle /\ DlIdle /\ ApiIdle

SpecMerge == MergeSpecInit /\ [][MergeNext]_vars

\* ------------------------------------- Compositor and Merger: claim C33

\* Either a direct call of build_transition_filters or a call of
\* merge_with_transitions.
ComposeSpecInit == CompSpecInit \/ MergeSpecInit

ComposeNext == CompNext \/ MergeNext

SpecCompose == ComposeSpecInit /\ [][ComposeNext]_vars

\* The merge call has a segment carrying neither a duration nor a start/end pair.
HasSegmentWithoutDuration ==
    \E i \in 1..Len(m_args.segments) :
        /\ "duration" \notin DOMAIN m_args.segments[i]
        /\ "start" \notin DOMAIN m_args.segments[i]
        /\ "end" \notin DOMAIN m_args.segments[i]

\* C33: empty input fails before any work.  build_transition_filters called with
\* no duration raises and returns no filter; merge_with_transitions called with
\* no segment raises without creating the output directory and without an
\* encoder invocation; and a segment with neither a duration nor a start/end
\* pair makes the merge raise before any encoder invocation.
C33_EmptyInputFailsBeforeAnyWork ==
    /\ (c_pc \in {"returned", "raised"} /\ c_durations = <<>>) =>
           /\ c_pc = "raised"
           /\ c_result.status = "error"
           /\ c_result.filters = <<>>
    /\ (m_pc \in {"run", "returned", "raised"} /\ m_args.segments = <<>>) =>
           /\ m_pc = "raised"
           /\ m_result.status = "error"
           /\ m_command = NoCommand
           /\ m_invocations = <<>>
           /\ Parent(MergedPath(m_args.youtube_id, m_args.job_id)) \notin dirs
    /\ (m_pc \in {"run", "returned", "raised"} /\ HasSegmentWithoutDuration) =>
           /\ m_pc = "raised"
           /\ m_result.status = "error"
           /\ m_command = NoCommand
           /\ m_invocations = <<>>

\* A merge call with no segment has raised.
C33_Witness ==
    /\ m_pc = "raised"
    /\ m_args.segments = <<>>
    /\ m_result.error = "At least one segment is required to merge"
    /\ m_invocations = <<>>

\* A merge call of three segments, one of them without a duration, has raised.
C33_WitnessNoDuration ==
    /\ m_pc = "raised"
    /\ Len(m_args.segments) = 3
    /\ HasSegmentWithoutDuration
    /\ m_result.error = "Each segment must include a duration or start/end"

\* A direct call of build_transition_filters with no duration has raised.
C33_WitnessNoDurations ==
    /\ c_pc = "raised"
    /\ c_durations = <<>>
    /\ c_result.error = "At least one segment duration is required"

\* ----------------------------------------------------------- Merger: claim C24

\* The paths of the merge call's segments in ascending position order.
MergeSortedPaths ==
    LET sorted == sorted_by_position(m_args.segments)
    IN [i \in 1..Len(sorted) |-> sorted[i]["path"]]

\* The label written by the last filter of the video ("v") or audio ("a")
\* chain of a filter graph.
LastOut(filters, stream) ==
    LET chain == SelectSeq(filters, LAMBDA f : f.out.s = stream)
    IN chain[Len(chain)].out

\* C24: merge_with_transitions never invokes the encoder more than once; a call
\* that returned, or that raised after merge_command built its command, invoked
\* it exactly once.  With one segment the command is the stream copy of that
\* segment to the merged path, with no filter graph and no mapping; with N >= 2
\* segments it carries the N paths in position order, the filter graph of
\* build_transition_filters, and exactly two mappings, the labels written by
\* the last video and the last audio filter of that graph.
C24_OneEncoderInvocationPerMerge ==
    /\ Len(m_invocations) <= 1
    /\ Len(m_invocations) = Len(m_runs)
    /\ m_pc = "returned" => Len(m_invocations) = 1
    /\ (m_pc = "raised" /\ m_invocations = <<>>) =>
          m_result.error \notin {"CalledProcessError", "Merged output not found"}
    /\ \A i \in 1..Len(m_invocations) :
          LET cmd == m_invocations[i]
              N   == Len(m_args.segments)
          IN /\ cmd.output = MergedPath(m_args.youtube_id, m_args.job_id)
             /\ cmd.inputs = MergeSortedPaths
             /\ N = 1 => /\ cmd.kind = "copy"
                         /\ cmd.filter_complex = <<>>
                         /\ cmd.maps = <<>>
                         /\ cmd.vcodec = "copy" /\ cmd.acodec = "copy"
             /\ N >= 2 =>
                   /\ cmd.kind = "filter"
                   /\ Len(cmd.inputs) = N
                   /\ Len(cmd.filter_complex) \in {2, 2 * (N - 1)}
                   /\ \A k \in 1..Len(cmd.filter_complex) :
                         \A j \in 1..Len(cmd.filter_complex[k].inputs) :
                             cmd.filter_complex[k].inputs[j].t = "in" =>
                                 cmd.filter_complex[k].inputs[j].i < N
                   /\ LET built == build_transition_filters(
                                        [k \in 1..N |-> _extract_duration(
                                            sorted_by_position(m_args.segments)[k])],
                                        m_args.transition, m_args.transition_duration)
                      IN /\ cmd.filter_complex = built.filters
                         /\ cmd.maps = <<built.final_video, built.final_audio>>
                   /\ cmd.maps = << LastOut(cmd.filter_complex, "v"),
                                    LastOut(cmd.filter_complex, "a") >>

\* C24 witness: a merge of three segments with a sliding transition returned
\* after one invocation of a filter command over its three inputs.
C24_Witness ==
    /\ m_pc = "returned"
    /\ Len(m_args.segments) = 3
    /\ m_args.transition = S_slide
    /\ Len(m_invocations) = 1
    /\ m_invocations[1].kind = "filter"
    /\ Len(m_invocations[1].inputs) = 3
    /\ m_invocations[1].maps = <<MidLabel(2, "v"), MidLabel(2, "a")>>

\* ---------------------------------------------------- Trimmer specification

\* The part files of the source video that may be left from an earlier run.
StaleParts == { PartPath(VideoId, k) : k \in 1..MaxSegments }

TrimInit ==
    /\ t_pc = "call"
    /\ t_args \in [youtube_id : {VideoId},
                   input_path : {SourcePath(VideoId)},
                   segments : TrimSegmentLists,
                   supabase_client : BOOLEAN]
    /\ t_sorted = <<>>
    /\ t_idx = 0
    /\ t_paths = <<>>
    /\ t_invocations = <<>>
    /\ t_db = <<>>
    /\ t_result = NoResult
    /\ files \in { {SourcePath(VideoId)}, {SourcePath(VideoId)} \cup StaleParts }
    /\ dirs = { DirPath("DOWNLOAD_ROOT", VideoId) }

\* Lines 100-108: the client is resolved, the directory made, the segments sorted.
\* With no segment the loop body never runs.
TrimStart ==
    /\ t_pc = "call"
    /\ dirs' = dirs \cup { DirPath("TRIM_ROOT", t_args.youtube_id) }
    /\ t_sorted' = sorted_by_position(t_args.segments)
    /\ t_idx' = 1
    /\ t_pc' = IF t_args.segments = <<>> THEN "writeback" ELSE "copy"
    /\ UNCHANGED <<files, t_args, t_paths, t_invocations, t_db, t_result>>
    /\ UNCHANGED <<compVars, mergeVars, hlVars, pubVars, dlVars, apiVars>>

\* output_path of the current loop iteration
TrimOutputPath == PartPath(t_args.youtube_id, t_idx)

\* The tail of _trim_segment and of the loop body once the encoder has
\* succeeded: the existence test, segment_paths.append, the next iteration.
TrimAfterEncoder ==
    IF OutputMissing(TrimOutputPath, files')
    THEN /\ t_result' = [status |-> "error", error |-> "Trimmed segment not found"]
         /\ t_pc' = "raised"
         /\ UNCHANGED <<t_idx, t_paths>>
    ELSE /\ t_paths' = Append(t_paths,
                [id |-> t_sorted[t_idx]["id"],
                 path |-> TrimOutputPath,
                 position |-> IF "position" \in DOMAIN t_sorted[t_idx]
                              THEN t_sorted[t_idx]["position"] ELSE t_idx - 1])
         /\ t_idx' = t_idx + 1
         /\ t_pc' = IF t_idx = Len(t_sorted) THEN "writeback" ELSE "copy"
         /\ UNCHANGED t_result

\* _trim_segment: _run_ffmpeg(copy_cmd).  The encoder exits with status 0 or
\* not and has or has not written the output file.
TrimCopy ==
    /\ t_pc = "copy"
    /\ \E exit_ok \in BOOLEAN, wrote \in BOOLEAN :
          /\ t_invocations' = Append(t_invocations,
                [cmd |-> TrimCopyCommand(t_args.input_path, t_sorted[t_idx]["start"],
                                         t_sorted[t_idx]["end"], TrimOutputPath),
                 exit_ok |-> exit_ok])
          /\ files' = IF wrote THEN files \cup {TrimOutputPath} ELSE files
          /\ IF exit_ok
             THEN TrimAfterEncoder
             ELSE /\ t_pc' = "reencode"
                  /\ UNCHANGED <<t_idx, t_paths, t_result>>
    /\ UNCHANGED <<dirs, t_args, t_sorted, t_db>>
    /\ UNCHANGED <<compVars, mergeVars, hlVars, pubVars, dlVars, apiVars>>

\* _trim_segment: the except branch, _run_ffmpeg(reencode_cmd); its failure propagates.
TrimReencode ==
    /\ t_pc = "reencode"
    /\ \E exit_ok \in BOOLEAN, wrote \in BOOLEAN :
          /\ t_invocations' = Append(t_invocations,
                [cmd |-> ReencodeCommand(t_args.input_path, t_sorted[t_idx]["start"],
                                         t_sorted[t_idx]["end"], TrimOutputPath),
                 exit_ok |-> exit_ok])
          /\ files' = IF wrote THEN files \cup {TrimOutputPath} ELSE files
          /\ IF exit_ok
             THEN TrimAfterEncoder
             ELSE /\ t_result' = [status |-> "error", error |-> "CalledProcessError"]
                  /\ t_pc' = "raised"
                  /\ UNCHANGED <<t_idx, t_paths>>
    /\ UNCHANGED <<dirs, t_args, t_sorted, t_db>>
    /\ UNCHANGED <<compVars, mergeVars, hlVars, pubVars, dlVars, apiVars>>

\* One update per entry, an entry without an identifier included.
TrimmedPathUpdates_EveryEntry(segment_paths) ==
    [i \in 1..Len(segment_paths) |->
        [table |-> "clip_segments", id |-> segment_paths[i].id,
         trimmed_path |-> segment_paths[i].path]]

\* The updates _update_trimmed_paths issues for segment_paths: one per entry
\* whose id is truthy, in order.
TrimmedPathUpdates(segment_paths) ==
    LET withId == SelectSeq(segment_paths, LAMBDA e : Truthy(e.id))
    IN [i \in 1..Len(withId) |->
           [table |-> "clip_segments", id |-> withId[i].id, trimmed_path |-> withId[i].path]]

\* Lines 122-125: the write-back when a client is available, then the return.
\* Every update succeeds, or the failed-th one raises and the error propagates.
TrimWriteBack ==
    /\ t_pc = "writeback"
    /\ LET updates == IF t_args.supabase_client THEN TrimmedPathUpdates(t_paths) ELSE <<>>
       IN \E failed \in 0..Len(updates) :
             IF failed = 0
             THEN /\ t_db' = t_db \o updates
                  /\ t_result' = [status |-> "ok",
                                  paths |-> [i \in 1..Len(t_paths) |-> t_paths[i].path]]
                  /\ t_pc' = "returned"
             ELSE /\ t_db' = t_db \o SubSeq(updates, 1, failed - 1)
                  /\ t_result' = [status |-> "error", error |-> "clip_segments update failed"]
                  /\ t_pc' = "raised"
    /\ UNCHANGED <<fsVars, t_args, t_sorted, t_idx, t_paths, t_invocations>>
    /\ UNCHANGED <<compVars, mergeVars, hlVars, pubVars, dlVars, apiVars>>

TrimNext == TrimStart \/ TrimCopy \/ TrimReencode \/ TrimWriteBack

TrimSpecInit == TrimInit /\ CompIdle /\ MergeIdle /\ HlIdle /\ PubIdle /\ DlIdle /\ ApiIdle

SpecTrim == TrimSpecInit /\ [][TrimNext]_vars

\* ---------------------------------------------------------- Trimmer: claim C26

\* The trimmed-path updates written for the segment identifier id.
UpdatesFor(id) == SelectSeq(t_db, LAMBDA u : u.id = id)

\* The ranks (1-based, in position order) of the segments carrying an identifier.
RanksWithId ==
    { k \in 1..Len(t_sorted) : Truthy(Get(t_sorted[k], "id", None)) }

\* C26: a trim_segments call that returned gives the part paths in position
\* order; with a client it has written exactly one update per segment that has
\* an identifier, on clip_segments, keyed by the identifier and carrying the
\* path of that segment's own part, and none for a segment without one; with
\* no client it has written nothing, and it never fails on the write-back.
C26_WriteBackPerIdentifiedSegment ==
    /\ t_pc = "returned" =>
          /\ t_result.paths = [k \in 1..Len(t_args.segments) |-> PartPath(VideoId, k)]
          /\ IF t_args.supabase_client
             THEN /\ Len(t_db) = Cardinality(RanksWithId)
                  /\ \A k \in RanksWithId :
                        /\ Len(UpdatesFor(t_sorted[k]["id"])) = 1
                        /\ UpdatesFor(t_sorted[k]["id"])[1] =
                              [table |-> "clip_segments", id |-> t_sorted[k]["id"],
                               trimmed_path |-> t_result.paths[k]]
             ELSE t_db = <<>>
    /\ ~t_args.supabase_client =>
          /\ t_db = <<>>
          /\ t_pc = "raised" => t_result.error # "clip_segments update failed"

\* C26 witness: with a client, three segments given out of position order, one
\* of them without an identifier, were trimmed and two updates written.
C26_Witness ==
    /\ t_pc = "returned"
    /\ t_args.supabase_client
    /\ Len(t_args.segments) = 3
    /\ t_sorted # t_args.segments
    /\ Cardinality(RanksWithId) = 2
    /\ Len(t_db) = 2

\* C26 witness, second case: with no client the same kind of call returned its
\* three paths and wrote nothing.
C26_WitnessNoClient ==
    /\ t_pc = "returned"
    /\ ~t_args.supabase_client
    /\ Len(t_result.paths) = 3
    /\ t_db = <<>>

\* ----------------------------------------------------------- Trimmer: claim C1

\* The encoder invocations made for part<k>, in order.
InvocationsFor(k) ==
    SelectSeq(t_invocations, LAMBDA e : e.cmd.output = PartPath(VideoId, k))

\* The Trimmer is between the failed copy and the re-encode of part<k>.
ReencodePending(k) == t_pc = "reencode" /\ t_idx = k

\* C1: per segment, the first invocation is the stream copy; if it succeeds no
\* re-encode is made; if it fails exactly one re-encode follows it directly, with
\* the codec pair libx264 / aac and the same input, range and output; so at most
\* two invocations are made per segment; and if the output file is missing after
\* them the component fails.
C1_CopyThenAtMostOneReencode ==
    /\ \A k \in 1..MaxSegments :
          LET inv == InvocationsFor(k)
          IN /\ Len(inv) <= 2
             /\ Len(inv) >= 1 =>
                   /\ inv[1].cmd.kind = "copy"
                   /\ inv[1].cmd.vcodec = "copy" /\ inv[1].cmd.acodec = "copy"
             /\ (Len(inv) >= 1 /\ inv[1].exit_ok) => Len(inv) = 1
             /\ (Len(inv) >= 1 /\ ~inv[1].exit_ok /\ ~ReencodePending(k)) =>
                   /\ Len(inv) = 2
                   /\ inv[2].cmd.kind = "reencode"
                   /\ inv[2].cmd.vcodec = "libx264" /\ inv[2].cmd.acodec = "aac"
                   /\ inv[2].cmd.input = inv[1].cmd.input
                   /\ inv[2].cmd.start = inv[1].cmd.start
                   /\ inv[2].cmd.end = inv[1].cmd.end
             /\ (Len(inv) >= 1 /\ ~ReencodePending(k) /\ PartPath(VideoId, k) \notin files) =>
                   t_pc = "raised"
    /\ \A j \in 1..Len(t_invocations) :
          t_invocations[j].cmd.kind = "reencode" =>
             /\ j > 1
             /\ t_invocations[j - 1].cmd.kind = "copy"
             /\ ~t_invocations[j - 1].exit_ok
             /\ t_invocations[j - 1].cmd.output = t_invocations[j].cmd.output
    /\ t_pc = "returned" =>
          \A i \in 1..Len(t_result.paths) : t_result.paths[i] \in files

\* C1 witness: a finished call in which the copy of part1 failed and was
\* re-encoded once, and the copy of part2 succeeded.
C1_Witness ==
    /\ t_pc = "returned"
    /\ Len(InvocationsFor(1)) = 2
    /\ ~InvocationsFor(1)[1].exit_ok
    /\ InvocationsFor(1)[2].cmd.vcodec = "libx264"
    /\ Len(InvocationsFor(2)) = 1

\* ---------------------------------------------------------- Trimmer: claim C35

\* Trimming of the segment at sorted index k has failed: the copy and the
\* re-encode both failed, or the last invocation succeeded and the output
\* file is missing.
TrimFailedAt(k) ==
    LET inv == InvocationsFor(k)
    IN \/ Len(inv) = 2 /\ ~inv[2].exit_ok
       \/ Len(inv) >= 1 /\ inv[Len(inv)].exit_ok /\ PartPath(VideoId, k) \notin files

\* C35: when trimming of the segment at sorted index k fails the stage fails
\* at once: no segment after k is trimmed and no trimmed-path write-back is
\* made for any segment, those before k included.
C35_TrimFailureStopsTheStage ==
    \A k \in 1..MaxSegments :
        TrimFailedAt(k) =>
            /\ t_pc = "raised"
            /\ t_idx = k
            /\ \A j \in 1..MaxSegments : j > k => InvocationsFor(j) = <<>>
            /\ t_db = <<>>
            /\ Len(t_paths) = k - 1

\* C35 witness: with a client available and three identified segments, part1
\* was produced, both invocations for part2 failed, and the stage has raised
\* with no invocation for part3 and no write-back.
C35_Witness ==
    /\ t_pc = "raised"
    /\ t_args.supabase_client
    /\ Len(t_sorted) = 3
    /\ \A i \in 1..3 : Truthy(t_sorted[i]["id"])
    /\ TrimFailedAt(2)
    /\ Len(InvocationsFor(2)) = 2
    /\ PartPath(VideoId, 1) \in files
    /\ InvocationsFor(3) = <<>>
    /\ t_db = <<>>

\* Part2 is missing after a successful invocation and the stage has raised.
C35_WitnessMissingOutput ==
    /\ t_pc = "raised"
    /\ t_args.supabase_client
    /\ Len(t_sorted) = 3
    /\ TrimFailedAt(2)
    /\ InvocationsFor(2)[Len(InvocationsFor(2))].exit_ok
    /\ InvocationsFor(3) = <<>>
    /\ t_db = <<>>

\* ------------------------------------------- Trimmer and Merger on one job

\* The Trimmer and the Merger are each called once with the segments of one
\* job: the same positions, in the same caller order.
OrderInit ==
    /\ \E ps \in SeqsUpTo(0..MaxPosition, MaxSegments) :
          /\ t_args = [youtube_id |-> VideoId, input_path |-> SourcePath(VideoId),
                       segments |-> [i \in 1..Len(ps) |-> TrimSegment(i, TRUE, ps[i], TRUE)],
                       supabase_client |-> FALSE]
          /\ m_args = [youtube_id |-> VideoId,
                       segments |-> [i \in 1..Len(ps) |->
                                        MergeSegment(i, TRUE, ps[i], "duration")],
                       transition |-> S_fade,
                       job_id |-> "job-1",
                       transition_duration |-> 2]
    /\ t_pc = "call"
    /\ t_sorted = <<>>
    /\ t_idx = 0
    /\ t_paths = <<>>
    /\ t_invocations = <<>>
    /\ t_db = <<>>
    /\ t_result = NoResult
    /\ m_pc = "call"
    /\ m_command = NoCommand
    /\ m_invocations = <<>>
    /\ m_runs = <<>>
    /\ m_result = NoResult
    /\ files = {SourcePath(VideoId)}
    /\ dirs = { DirPath("DOWNLOAD_ROOT", VideoId) }

OrderSpecInit == OrderInit /\ CompIdle /\ HlIdle /\ PubIdle /\ DlIdle /\ ApiIdle

OrderNext == TrimNext \/ MergeNext

SpecOrder == OrderSpecInit /\ [][OrderNext]_vars

\* -------------------------------------------------- claim C10 (segment order)

\* The k-th smallest sort key of a segment list.
KthSmallestPosition(segments, k) ==
    LET key(i) == PositionKey(segments[i])
        idxs == 1..Len(segments)
    IN CHOOSE v \in { key(i) : i \in idxs } :
          /\ Cardinality({ i \in idxs : key(i) < v }) < k
          /\ k <= Cardinality({ i \in idxs : key(i) <= v })

\* The caller's index of the trim segment that starts at `start`.
TrimInputIndex(start) ==
    CHOOSE i \in 1..Len(t_args.segments) : t_args.segments[i]["start"] = start

\* The caller's index of the merge segment whose file is `path`.
MergeInputIndex(path) ==
    CHOOSE i \in 1..Len(m_args.segments) : m_args.segments[i]["path"] = path

\* C10: whatever the caller's order, the Trimmer trims the segment with the
\* k-th smallest position into part<k>, one part after the other, and returns
\* the paths part1..partN in that order; merge_command lists the encoder inputs,
\* and feeds the Compositor the durations, in ascending position order.
\* Positions [2, 0, 1] are processed as 0, 1, 2.
C10_AscendingPositionOrder ==
    /\ \A j \in 1..Len(t_invocations) :
          LET c == t_invocations[j].cmd
          IN /\ c.output = PartPath(VideoId, c.output.n)
             /\ c.output.n \in 1..Len(t_args.segments)
             /\ PositionKey(t_args.segments[TrimInputIndex(c.start)])
                   = KthSmallestPosition(t_args.segments, c.output.n)
             /\ \A j2 \in j..Len(t_invocations) :
                   c.output.n <= t_invocations[j2].cmd.output.n
    /\ t_pc = "returned" =>
          /\ t_result.paths = [k \in 1..Len(t_args.segments) |-> PartPath(VideoId, k)]
          /\ { TrimInputIndex(t_invocations[j].cmd.start) : j \in 1..Len(t_invocations) }
                = 1..Len(t_args.segments)
    /\ m_command # NoCommand =>
          /\ Len(m_command.inputs) = Len(m_args.segments)
          /\ { MergeInputIndex(m_command.inputs[k]) : k \in 1..Len(m_command.inputs) }
                = 1..Len(m_args.segments)
          /\ \A k \in 1..Len(m_command.inputs) :
                PositionKey(m_args.segments[MergeInputIndex(m_command.inputs[k])])
                   = KthSmallestPosition(m_args.segments, k)
          /\ m_command.kind = "filter" =>
                m_command.filter_complex =
                   build_transition_filters(
                       [k \in 1..Len(m_command.inputs) |->
                           SegmentLength(MergeInputIndex(m_command.inputs[k]))],
                       m_args.transition, m_args.transition_duration).filters
    /\ (Len(t_args.segments) = 3
          /\ [i \in 1..3 |-> PositionKey(t_args.segments[i])] = <<2, 0, 1>>) =>
          /\ t_pc = "returned" =>
                /\ InvocationsFor(1)[1].cmd.start = SegmentStart(2)
                /\ InvocationsFor(2)[1].cmd.start = SegmentStart(3)
                /\ InvocationsFor(3)[1].cmd.start = SegmentStart(1)
          /\ m_command # NoCommand =>
                m_command.inputs = << PartPath(VideoId, 2), PartPath(VideoId, 3),
                                      PartPath(VideoId, 1) >>

\* C10 witness: the job with positions [2, 0, 1] has been trimmed and merged.
C10_Witness ==
    /\ Len(t_args.segments) = 3
    /\ [i \in 1..3 |-> PositionKey(t_args.segments[i])] = <<2, 0, 1>>
    /\ t_pc = "returned"
    /\ m_pc = "returned"
    /\ m_command.kind = "filter"

\* ------------------------------------------------------------ Merger: claim C9

\* The style is a non-empty string that is none of the known styles.
StyleIsUnknown(style) == Truthy(style) /\ ~StyleIsKnown(style)

\* C9 (as claimed): a merge call with a non-empty segment list of any length and
\* an unknown style raises an error, and no encoder invocation is made.
C9_UnknownStyleRaisesBeforeEncoder ==
    (m_pc \notin {"idle", "call"} /\ m_args.segments # <<>>
        /\ StyleIsUnknown(m_args.transition)) =>
        /\ m_pc = "raised"
        /\ m_command = NoCommand
        /\ m_invocations = <<>>

\* ------------------------------------------- Highlight Stager specification

\* generate_highlight is called for the merged file of its job; on disk are any
\* of the staging directories, the merged file or not, and possibly the merged
\* file of another job on the same source video.
HlInit ==
    /\ h_pc = "call"
    /\ \E job_id \in JobIds :
          /\ h_args \in [youtube_id : {VideoId},
                         merged_path : {MergedPath(VideoId, job_id)},
                         job_id : {job_id},
                         bucket : {NoBucket, "media"},
                         supabase_client : BOOLEAN]
          /\ \E download \in BOOLEAN, trim \in BOOLEAN,
                merge \in {"none", "dir", "file", "both"} :
                /\ dirs = (IF download THEN {StagedDownload.d} ELSE {})
                          \cup (IF trim THEN {StagedTrim.d} ELSE {})
                          \cup (IF merge # "none" THEN {DirPath("MERGE_ROOT", VideoId)} ELSE {})
                /\ files = (IF download THEN StagedDownload.f ELSE {})
                           \cup (IF trim THEN StagedTrim.f ELSE {})
                           \cup (IF merge \in {"file", "both"}
                                 THEN {MergedPath(VideoId, job_id)} ELSE {})
                           \cup (IF merge = "both"
                                 THEN {MergedPath(VideoId, OtherJobId)} ELSE {})
    /\ h_staged = NoPath
    /\ h_public_url = NoUrl
    /\ h_calls = <<>>
    /\ h_result = NoResult

\* stage_highlight returns: the merged file exists and is copied to target_path.
HlStage ==
    /\ h_pc = "call"
    /\ MergedExists(h_args.merged_path, files)
    /\ dirs' = dirs \cup { DirPath("HIGHLIGHT_ROOT", h_args.youtube_id) }
    /\ files' = FilesAfterCopy2(files, h_args.merged_path,
                                HighlightPath(h_args.youtube_id, h_args.job_id))
    /\ h_staged' = HighlightPath(h_args.youtube_id, h_args.job_id)
    /\ h_pc' = "watermark"
    /\ UNCHANGED <<h_args, h_public_url, h_calls, h_result>>
    /\ UNCHANGED <<compVars, mergeVars, trimVars, pubVars, dlVars, apiVars>>

\* stage_highlight raises FileNotFoundError: the merged file does not exist.
HlStageRaises ==
    /\ h_pc = "call"
    /\ ~MergedExists(h_args.merged_path, files)
    /\ h_result' = [status |-> "error", error |-> "Merged video not found"]
    /\ h_pc' = "raised"
    /\ UNCHANGED <<fsVars, h_args, h_staged, h_public_url, h_calls>>
    /\ UNCHANGED <<compVars, mergeVars, trimVars, pubVars, dlVars, apiVars>>

\* The upload decided by the client alone.
UploadConfigured_ClientOnly == h_args.supabase_client

\* generate_highlight uploads: `supabase_client is not None and resolved_bucket`.
UploadConfigured == h_args.supabase_client /\ h_args.bucket # NoBucket

\* _apply_watermark: subprocess.run(command, check=True).  The encoder exits
\* with status 0 or not and has or has not written the watermarked file; on
\* status 0 the staged copy is unlinked and the watermarked path returned
\* (without a test that it exists).
HlWatermark ==
    /\ h_pc = "watermark"
    /\ \E exit_ok \in BOOLEAN, wrote \in BOOLEAN :
          /\ h_calls' = Append(h_calls, [kind |-> "ffmpeg", input |-> h_staged,
                                         output |-> WatermarkedPath(h_staged),
                                         ok |-> exit_ok, wrote |-> wrote])
          /\ IF exit_ok
             THEN /\ files' = ((IF wrote THEN files \cup {WatermarkedPath(h_staged)} ELSE files)
                               \ {h_staged})
                  /\ h_staged' = WatermarkedPath(h_staged)
                  /\ h_pc' = IF UploadConfigured THEN "upload" ELSE "cleanup"
                  /\ UNCHANGED h_result
             ELSE /\ files' = IF wrote THEN files \cup {WatermarkedPath(h_staged)} ELSE files
                  /\ h_result' = [status |-> "error", error |-> "CalledProcessError"]
                  /\ h_pc' = "raised"
                  /\ UNCHANGED h_staged
    /\ UNCHANGED <<dirs, h_args, h_public_url>>
    /\ UNCHANGED <<compVars, mergeVars, trimVars, pubVars, dlVars, apiVars>>

\* _upload_highlight: storage.upload, get_public_url and, with a job id, the
\* clip_jobs update.  Either call succeeds or raises; an error propagates out of
\* generate_highlight.
HlUpload ==
    /\ h_pc = "upload"
    /\ \E upload_ok \in BOOLEAN, update_ok \in BOOLEAN :
          LET url == PublicUrl(h_args.bucket, h_args.youtube_id, h_staged)
              upload == [kind |-> "storage.upload", object_path |-> url.object_path,
                         file |-> h_staged, ok |-> upload_ok]
              update == [kind |-> "clip_jobs.update", id |-> h_args.job_id,
                         output_url |-> url, ok |-> update_ok]
          IN IF ~upload_ok
             THEN /\ h_calls' = Append(h_calls, upload)
                  /\ h_result' = [status |-> "error", error |-> "storage upload failed"]
                  /\ h_pc' = "raised"
                  /\ UNCHANGED h_public_url
             ELSE IF h_args.job_id = NoJobId
             THEN /\ h_calls' = Append(h_calls, upload)
                  /\ h_public_url' = url
                  /\ h_pc' = "cleanup"
                  /\ UNCHANGED h_result
             ELSE IF ~update_ok
             THEN /\ h_calls' = h_calls \o <<upload, update>>
                  /\ h_result' = [status |-> "error", error |-> "clip_jobs update failed"]
                  /\ h_pc' = "raised"
                  /\ UNCHANGED h_public_url
             ELSE /\ h_calls' = h_calls \o <<upload, update>>
                  /\ h_public_url' = url
                  /\ h_pc' = "cleanup"
                  /\ UNCHANGED h_result
    /\ UNCHANGED <<fsVars, h_args, h_staged>>
    /\ UNCHANGED <<compVars, mergeVars, trimVars, pubVars, dlVars, apiVars>>

\* _cleanup_intermediate_assets(youtube_id), then `return public_url or str(staged_path)`.
\* shutil.rmtree removes each existing candidate with everything in it.
HlCleanupAndReturn ==
    /\ h_pc = "cleanup"
    /\ LET removed == CleanupCandidates(h_args.youtube_id, dirs)
           gone == { removed[i] : i \in 1..Len(removed) }
       IN /\ dirs' = dirs \ gone
          /\ files' = FilesAfterRmtree(files, gone)
          /\ h_calls' = h_calls \o [i \in 1..Len(removed) |->
                                       [kind |-> "rmtree", dir |-> removed[i]]]
    /\ h_result' = [status |-> "ok",
                    value |-> IF h_public_url # NoUrl THEN h_public_url ELSE h_staged]
    /\ h_pc' = "returned"
    /\ UNCHANGED <<h_args, h_staged, h_public_url>>
    /\ UNCHANGED <<compVars, mergeVars, trimVars, pubVars, dlVars, apiVars>>

\* The queue delivers the generate_highlight task a second time, with the
\* same arguments, after the first invocation has returned.
Redelivered == \E i \in 1..Len(h_calls) : h_calls[i].kind = "redelivered"

HlRedeliver ==
    /\ h_pc = "returned"
    /\ ~Redelivered
    /\ h_calls' = Append(h_calls, [kind |-> "redelivered"])
    /\ h_staged' = NoPath
    /\ h_public_url' = NoUrl
    /\ h_result' = NoResult
    /\ h_pc' = "call"
    /\ UNCHANGED <<fsVars, h_args>>
    /\ UNCHANGED <<compVars, mergeVars, trimVars, pubVars, dlVars, apiVars>>

HlNext ==
    HlStage \/ HlStageRaises \/ HlWatermark \/ HlUpload \/ HlCleanupAndReturn \/ HlRedeliver

HlSpecInit == HlInit /\ CompIdle /\ MergeIdle /\ TrimIdle /\ PubIdle /\ DlIdle /\ ApiIdle

SpecHighlight == HlSpecInit /\ [][HlNext]_vars

\* ---------------------------------------------- Highlight Stager: claims C3, C4

\* The download / trim / merge staging directories of the source video.
StagingDirs(youtube_id) ==
    { DirPath("DOWNLOAD_ROOT", youtube_id), DirPath("TRIM_ROOT", youtube_id),
      DirPath("MERGE_ROOT", youtube_id) }

\* None of the staging directories of the source video exists, nor a file in one.
StagingGone(youtube_id) ==
    /\ StagingDirs(youtube_id) \cap dirs = {}
    /\ \A f \in files : Parent(f) \notin StagingDirs(youtube_id)

\* The object-storage upload was attempted.
UploadAttempted == \E i \in 1..Len(h_calls) : h_calls[i].kind = "storage.upload"

WatermarkedProduced ==
    /\ \E i \in 1..Len(h_calls) : h_calls[i].kind = "ffmpeg" /\ h_calls[i].ok
    /\ h_staged # NoPath
    /\ h_staged \in files
    /\ h_staged = WatermarkedPath(HighlightPath(h_args.youtube_id, h_args.job_id))

\* C4 (as claimed): once the watermarked highlight file is produced, the
\* staging directories are gone when the invocation ends, whether it returns or
\* the upload step (or the job update) raises.
C4_CleanupOnceHighlightProduced ==
    (h_pc \in {"returned", "raised"} /\ WatermarkedProduced) =>
        StagingGone(h_args.youtube_id)

\* -------------------------------------------- Upload Publisher specification

\* The highlight file the API hands to the Publisher.
PublishFile == WatermarkedPath(HighlightPath(VideoId, "job-1"))

\* A metadata dict that carries a shorts_mode key of its own carries the value
\* of the shorts_mode argument: the API builds both from one request field.
PubInit ==
    /\ p_pc = "call"
    /\ \E cred \in SampleCredentials :
          p_args \in [youtube_id : {VideoId},
                      file_path : {PublishFile},
                      metadata : SampleMetadata,
                      tokens : SampleTokens,
                      user_id : {"user-1"},
                      job_id : JobIds,
                      client_id : {cred.client_id},
                      client_secret : {cred.client_secret},
                      supabase_client : BOOLEAN,
                      shorts_mode : BOOLEAN]
    /\ Get(p_args.metadata, "shorts_mode", p_args.shorts_mode) = p_args.shorts_mode
    /\ p_active = <<>>
    /\ p_upload_url = NoUploadUrl
    /\ p_video_id = NoVideoId
    /\ p_calls = <<>>
    /\ p_result = NoResult
    /\ files \in { {}, {PublishFile} }
    /\ dirs = { DirPath("HIGHLIGHT_ROOT", VideoId) }

\* The condition of line 119.
RefreshCondition ==
    /\ _token_expired(Get(p_args.tokens, "expires_at", NoExpiry))
    /\ p_args.client_id # ""
    /\ p_args.client_secret # ""
    /\ Get(p_args.tokens, "refresh_token", "") # ""

\* Lines 106-119: the file test, the client, the token check.
PubStart ==
    /\ p_pc = "call"
    /\ IF ~SourceExists(p_args.file_path, files)
       THEN /\ p_result' = [status |-> "error", error |-> "Highlight file missing"]
            /\ p_pc' = "raised"
       ELSE /\ p_pc' = IF RefreshCondition THEN "refresh" ELSE "initiate"
            /\ UNCHANGED p_result
    /\ p_active' = p_args.tokens
    /\ UNCHANGED <<p_args, p_upload_url, p_video_id, p_calls>>
    /\ UNCHANGED <<fsVars, compVars, mergeVars, trimVars, hlVars, dlVars, apiVars>>

\* _refresh_access_token: the POST to the token endpoint answers with a
\* non-success status (raise_for_status raises) or with a JSON payload.
PubRefresh ==
    /\ p_pc = "refresh"
    /\ LET request == [kind |-> "refresh", client_id |-> p_args.client_id,
                       client_secret |-> p_args.client_secret,
                       refresh_token |-> p_args.tokens["refresh_token"]]
       IN \/ /\ p_calls' = Append(p_calls, request @@ ("ok" :> FALSE) @@ ("response" :> <<>>))
             /\ p_result' = [status |-> "error", error |-> "token endpoint HTTP error"]
             /\ p_pc' = "raised"
             /\ UNCHANGED p_active
          \/ \E payload \in SampleRefreshPayloads :
                /\ p_calls' = Append(p_calls, request @@ ("ok" :> TRUE)
                                                       @@ ("response" :> payload))
                /\ p_active' = MergeDicts(p_args.tokens,
                                   RefreshedTokens(payload, p_args.tokens["refresh_token"]))
                /\ p_pc' = "initiate"
                /\ UNCHANGED p_result
    /\ UNCHANGED <<p_args, p_upload_url, p_video_id>>
    /\ UNCHANGED <<fsVars, compVars, mergeVars, trimVars, hlVars, dlVars, apiVars>>

\* Lines 124-125, _initiate_resumable_upload: the POST answers with a
\* non-success status, with success but no Location header, or with a Location.
PubInitiate ==
    /\ p_pc = "initiate"
    /\ LET request == [kind |-> "initiate",
                       access_token |-> Get(p_active, "access_token", ""),
                       tags |-> UploadTags(WithShortsDefault(p_args.metadata,
                                                             p_args.shorts_mode))]
       IN \E answer \in {"http_error", "no_location", "location"} :
          \E loc \in IF answer = "location" THEN SampleLocations ELSE {NoUploadUrl} :
             /\ p_calls' = Append(p_calls, request @@ ("ok" :> (answer # "http_error"))
                                                    @@ ("location" :> loc))
             /\ IF initiate_raises(answer)
                THEN /\ p_result' =
                          [status |-> "error",
                           error |-> IF answer = "http_error" THEN "upload endpoint HTTP error"
                                     ELSE "YouTube API did not return a resumable upload URL"]
                     /\ p_pc' = "raised"
                     /\ UNCHANGED p_upload_url
                ELSE /\ p_upload_url' = loc
                     /\ p_pc' = "upload"
                     /\ UNCHANGED p_result
    /\ UNCHANGED <<p_args, p_active, p_video_id>>
    /\ UNCHANGED <<fsVars, compVars, mergeVars, trimVars, hlVars, dlVars, apiVars>>

\* _upload_video: the PUT of the file answers with a non-success status, or
\* with success and a body that carries a video id or does not.
PubUpload ==
    /\ p_pc = "upload"
    /\ LET request == UploadRequest(p_upload_url, p_args.file_path,
                                    Get(p_active, "access_token", ""))
       IN \E answer \in {"http_error", "no_id", "id"} :
             /\ p_calls' = Append(p_calls, request @@ ("ok" :> (answer # "http_error")))
             /\ IF answer = "http_error"
                THEN /\ p_result' = [status |-> "error", error |-> "upload HTTP error"]
                     /\ p_pc' = "raised"
                     /\ UNCHANGED p_video_id
                ELSE /\ p_video_id' = IF answer = "id" THEN "yt123" ELSE NoVideoId
                     /\ p_pc' = "persist"
                     /\ UNCHANGED p_result
    /\ UNCHANGED <<p_args, p_active, p_upload_url>>
    /\ UNCHANGED <<fsVars, compVars, mergeVars, trimVars, hlVars, dlVars, apiVars>>

\* The writes without the job record's update.
PersistWrites_TokensOnly(user_id, job_id, tokens, video_id) ==
    IF tokens # <<>>
    THEN << [kind |-> "youtube_tokens.upsert", user_id |-> user_id,
             access_token |-> Get(tokens, "access_token", ""),
             refresh_token |-> Get(tokens, "refresh_token", ""),
             expires_at |-> Get(tokens, "expires_at", NoExpiry)] >>
    ELSE <<>>

\* The writes of _persist_publish_results(client, user_id, job_id, tokens, video_id).
PersistWrites(user_id, job_id, tokens, video_id) ==
    (IF tokens # <<>>
     THEN << [kind |-> "youtube_tokens.upsert", user_id |-> user_id,
              access_token |-> Get(tokens, "access_token", ""),
              refresh_token |-> Get(tokens, "refresh_token", ""),
              expires_at |-> Get(tokens, "expires_at", NoExpiry)] >>
     ELSE <<>>)
    \o
    (IF job_id # NoJobId /\ video_id # NoVideoId
     THEN << [kind |-> "clip_jobs.update", id |-> job_id,
              youtube_url |-> PlaybackUrl(video_id)] >>
     ELSE <<>>)

\* Lines 129-132: the persistence writes when a client is available, then the
\* return.  Every write succeeds, or the failed-th one raises.
PubPersistAndReturn ==
    /\ p_pc = "persist"
    /\ LET writes == IF p_args.supabase_client
                     THEN PersistWrites(p_args.user_id, p_args.job_id, p_active, p_video_id)
                     ELSE <<>>
       IN \E failed \in 0..Len(writes) :
             IF failed = 0
             THEN /\ p_calls' = p_calls \o writes
                  /\ p_result' = [status |-> "ok", video_id |-> p_video_id,
                                  upload_url |-> p_upload_url]
                  /\ p_pc' = "returned"
             ELSE /\ p_calls' = p_calls \o SubSeq(writes, 1, failed - 1)
                  /\ p_result' = [status |-> "error", error |-> "persistence write failed"]
                  /\ p_pc' = "raised"
    /\ UNCHANGED <<p_args, p_active, p_upload_url, p_video_id>>
    /\ UNCHANGED <<fsVars, compVars, mergeVars, trimVars, hlVars, dlVars, apiVars>>

PubNext == PubStart \/ PubRefresh \/ PubInitiate \/ PubUpload \/ PubPersistAndReturn

PubSpecInit == PubInit /\ CompIdle /\ MergeIdle /\ TrimIdle /\ HlIdle /\ DlIdle /\ ApiIdle

SpecPublish == PubSpecInit /\ [][PubNext]_vars

\* -------------------------------------------- Highlight Stager: claims C21..C23

\* The calls of the current delivery of generate_highlight, as indices of h_calls.
CurrentCalls ==
    { i \in 1..Len(h_calls) :
        /\ h_calls[i].kind # "redelivered"
        /\ \A j \in i..Len(h_calls) : h_calls[j].kind # "redelivered" }

CurrentCallsOfKind(kind) == { i \in CurrentCalls : h_calls[i].kind = kind }

\* C21: a generate_highlight invoked while the merged file does not exist
\* fails in its first step with "Merged video not found" and changes nothing:
\* no file or directory appears or disappears and no encoder, storage or job
\* call is made.
C21_MissingMergedFileHasNoEffect ==
    [][ (h_pc = "call" /\ h_args.merged_path \notin files) =>
           /\ h_pc' = "raised"
           /\ h_result' = [status |-> "error", error |-> "Merged video not found"]
           /\ files' = files
           /\ dirs' = dirs
           /\ h_calls' = h_calls ]_vars

\* C21 witness: with the staging directories on disk and an upload configured,
\* the first delivery raised for the missing merged file.
C21_Witness ==
    /\ h_pc = "raised"
    /\ h_result = [status |-> "error", error |-> "Merged video not found"]
    /\ ~Redelivered
    /\ h_calls = <<>>
    /\ h_args.supabase_client /\ h_args.bucket # NoBucket
    /\ StagingDirs(h_args.youtube_id) \subseteq dirs

\* The watermarked highlight of the invocation.
FinalHighlight == [HighlightPath(h_args.youtube_id, h_args.job_id)
                      EXCEPT !.name = Append(@, "_watermarked")]

\* C22: the upload is made if and only if a client and a bucket are both
\* given; a returning invocation returns the public URL when it uploaded and
\* the local watermarked path otherwise; the job's output_url is updated, to
\* that URL, only after an upload and with a job identifier.
C22_UploadIffConfigured ==
    /\ CurrentCallsOfKind("storage.upload") # {} =>
          h_args.supabase_client /\ h_args.bucket # NoBucket
    /\ \A i \in CurrentCallsOfKind("clip_jobs.update") :
          /\ h_args.job_id # NoJobId
          /\ h_calls[i].id = h_args.job_id
          /\ \E j \in CurrentCallsOfKind("storage.upload") :
                /\ j < i
                /\ h_calls[j].ok
                /\ h_calls[i].output_url.bucket = h_args.bucket
                /\ h_calls[i].output_url.object_path = h_calls[j].object_path
    /\ h_pc = "returned" =>
          IF h_args.supabase_client /\ h_args.bucket # NoBucket
          THEN /\ \E j \in CurrentCallsOfKind("storage.upload") :
                     /\ h_calls[j].ok
                     /\ h_result.value = [bucket |-> h_args.bucket,
                                          object_path |-> h_calls[j].object_path]
               /\ h_args.job_id # NoJobId =>
                     \E i \in CurrentCallsOfKind("clip_jobs.update") :
                         h_calls[i].output_url = h_result.value
          ELSE /\ CurrentCallsOfKind("storage.upload") = {}
               /\ CurrentCallsOfKind("clip_jobs.update") = {}
               /\ h_result.value = FinalHighlight

\* C22 witness: a client was given without a bucket, and the invocation
\* returned the local watermarked path.
C22_Witness ==
    /\ h_pc = "returned"
    /\ h_args.supabase_client
    /\ h_args.bucket = NoBucket
    /\ h_result.value = FinalHighlight

\* C23: in one invocation the staged copy is in place before the watermark
\* runs; the watermark runs at most once, from the staged copy to the
\* watermarked path; once it has succeeded the staged copy is gone; the upload
\* comes after it and the cleanup after both; the file uploaded and the local
\* path returned are the watermarked path.
C23_WatermarkThenUploadThenCleanup ==
    /\ h_pc = "watermark" =>
          /\ HighlightPath(h_args.youtube_id, h_args.job_id) \in files
          /\ CurrentCalls = {}
    /\ Cardinality(CurrentCallsOfKind("ffmpeg")) <= 1
    /\ h_pc \in {"upload", "cleanup", "returned"} =>
          Cardinality(CurrentCallsOfKind("ffmpeg")) = 1
    /\ \A i \in CurrentCallsOfKind("ffmpeg") :
          /\ h_calls[i].input = HighlightPath(h_args.youtube_id, h_args.job_id)
          /\ h_calls[i].output = FinalHighlight
          /\ h_calls[i].output # h_calls[i].input
          /\ \A j \in CurrentCalls : i <= j
          /\ h_calls[i].ok =>
                HighlightPath(h_args.youtube_id, h_args.job_id) \notin files
    /\ \A i \in CurrentCallsOfKind("storage.upload") :
          /\ h_calls[i].file = FinalHighlight
          /\ \E j \in CurrentCallsOfKind("ffmpeg") : j < i /\ h_calls[j].ok
    /\ \A i \in CurrentCallsOfKind("rmtree") :
          /\ \E j \in CurrentCallsOfKind("ffmpeg") : j < i /\ h_calls[j].ok
          /\ \A j \in CurrentCalls : h_calls[j].kind # "rmtree" => j < i
    /\ (h_pc = "returned" /\ CurrentCallsOfKind("storage.upload") = {}) =>
          h_result.value = FinalHighlight

\* C23 witness: an invocation with a job identifier watermarked, uploaded,
\* updated the job, cleaned the three staging directories and returned.
C23_Witness ==
    /\ h_pc = "returned"
    /\ [i \in 1..Len(h_calls) |-> h_calls[i].kind] =
          <<"ffmpeg", "storage.upload", "clip_jobs.update", "rmtree", "rmtree", "rmtree">>

\* ------------------------------------------------------------- Downloader

DlInit ==
    /\ d_pc = "call"
    /\ d_args = [youtube_url |-> "https://www.youtube.com/watch?v=abc123", youtube_id |-> VideoId]
    /\ d_calls = <<>>
    /\ d_result = NoResult
    /\ \E left \in {"nothing", "dir", "file"} :
          /\ dirs = IF left = "nothing" THEN {} ELSE {StagedDownload.d}
          /\ files = IF left = "file" THEN StagedDownload.f ELSE {}

\* build_output_paths: ensure_video_dir makes the directory of the video.
DlBuildPaths ==
    /\ d_pc = "call"
    /\ dirs' = dirs \cup { DirPath("DOWNLOAD_ROOT", d_args.youtube_id) }
    /\ d_pc' = "download"
    /\ UNCHANGED <<files, d_args, d_calls, d_result>>
    /\ UNCHANGED <<compVars, mergeVars, trimVars, hlVars, pubVars, apiVars>>

\* ydl.download([youtube_url]) and the existence test of the target: the
\* downloader raises or returns, and has or has not written the target file
\* and a partial file.
DlDownload ==
    /\ d_pc = "download"
    /\ \E ok \in BOOLEAN, wrote \in BOOLEAN, partial \in BOOLEAN :
          LET target_path == SourcePath(d_args.youtube_id)
          IN /\ d_calls' = Append(d_calls, [kind |-> "ydl.download", url |-> d_args.youtube_url,
                                            ok |-> ok, wrote |-> wrote])
             /\ files' = files \cup (IF wrote THEN {target_path} ELSE {})
                               \cup (IF partial THEN {PartialSourcePath(d_args.youtube_id)}
                                     ELSE {})
             /\ IF ~ok
                THEN /\ d_result' = [status |-> "error", error |-> "DownloadError"]
                     /\ d_pc' = "raised"
                ELSE IF OutputMissing(target_path, files')
                THEN /\ d_result' = [status |-> "error",
                                     error |-> "Expected downloaded video"]
                     /\ d_pc' = "raised"
                ELSE /\ d_result' = [status |-> "ok", path |-> target_path]
                     /\ d_pc' = "returned"
    /\ UNCHANGED <<dirs, d_args>>
    /\ UNCHANGED <<compVars, mergeVars, trimVars, hlVars, pubVars, apiVars>>

\* cleanup_video(youtube_id), called once the download has ended.
DlCleanupVideo ==
    /\ d_pc \in {"returned", "raised"}
    /\ LET directory == DirPath("DOWNLOAD_ROOT", d_args.youtube_id)
       IN /\ dirs' = dirs \ {directory}
          /\ files' = IF directory \in dirs THEN FilesAfterRmtree(files, {directory}) ELSE files
          /\ d_result' = [status |-> "ok", value |-> directory \notin dirs']
    /\ d_pc' = "cleaned"
    /\ UNCHANGED <<d_args, d_calls>>
    /\ UNCHANGED <<compVars, mergeVars, trimVars, hlVars, pubVars, apiVars>>

DlNext == DlBuildPaths \/ DlDownload \/ DlCleanupVideo

\* ------------------------------------------------ the stages, one at a time

\* One stage of the pipeline is invoked: the download, the trim, the merge,
\* the highlight generation or the publication.
StagesSpecInit ==
    \/ DlInit /\ CompIdle /\ TrimIdle /\ MergeIdle /\ HlIdle /\ PubIdle /\ ApiIdle
    \/ TrimInit /\ CompIdle /\ DlIdle /\ MergeIdle /\ HlIdle /\ PubIdle /\ ApiIdle
    \/ MergeInit /\ CompIdle /\ DlIdle /\ TrimIdle /\ HlIdle /\ PubIdle /\ ApiIdle
    \/ HlInit /\ CompIdle /\ DlIdle /\ TrimIdle /\ MergeIdle /\ PubIdle /\ ApiIdle
    \/ PubInit /\ CompIdle /\ DlIdle /\ TrimIdle /\ MergeIdle /\ HlIdle /\ ApiIdle

StagesNext == DlNext \/ TrimNext \/ MergeNext \/ HlNext \/ PubNext

SpecStages == StagesSpecInit /\ [][StagesNext]_vars

\* ----------------------------------------------------------------------- API
\* Times of the API are in whole seconds.

\* FreeTierPolicy.MAX_HIGHLIGHTS_PER_MONTH
MAX_HIGHLIGHTS_PER_MONTH == 2

\* int(os.getenv("SHORTS_MAX_DURATION", "60")) with the variable unset
SHORTS_MAX_DURATION == 60

\* FreeTierPolicy.ALLOWED_TRANSITIONS
ALLOWED_TRANSITIONS == { S_fade }

\* The values of the enum TransitionType.
TransitionType ==
    { S_fade, S_fadeblack, S_crossfade, S_slide, S_zoom, S_wipe, S_cut, S_auto }

\* validate_bounds without the test of end against start.
validate_bounds_raises_NonNegativeOnly(segment) ==
    segment.start < 0 \/ segment.end < 0

\* ClipSegment.validate_bounds raises ValueError.
validate_bounds_raises(segment) ==
    \/ segment.start < 0 \/ segment.end < 0
    \/ segment.end <= segment.start

\* The body of POST /segments is refused by validation (status 422): a segment
\* fails validate_bounds, or validate_segments finds the list empty.
ClipJobRequestInvalid(payload) ==
    \/ \E i \in 1..Len(payload.segments) : validate_bounds_raises(payload.segments[i])
    \/ payload.segments = <<>>

\* A query that found no row (None, or the empty dict of _extract_first).
NoRow == [id |-> "<none>"]

\* The first row of a `limit(1)` query.
FirstRow(rows) == IF rows = {} THEN NoRow ELSE CHOOSE r \in rows : TRUE

\* VideoRepository.get_video_by_user_and_youtube
get_video_by_user_and_youtube(db, user_id, youtube_id) ==
    FirstRow({ v \in db.videos : v.user_id = user_id /\ v.youtube_id = youtube_id })

\* VideoRepository.get_video_by_id
get_video_by_id(db, video_id) == FirstRow({ v \in db.videos : v.id = video_id })

\* ClipJobRepository.get_job_by_id
get_job_by_id(db, job_id) == FirstRow({ j \in db.clip_jobs : j.id = job_id })

\* ClipJobRepository.get_segments_for_job
get_segments_for_job(db, job_id) == { g \in db.clip_segments : g.job_id = job_id }

\* YouTubeTokenRepository.get_tokens_for_user
get_tokens_for_user(db, user_id) ==
    FirstRow({ t \in db.youtube_tokens : t.user_id = user_id })

\* A clip_jobs row without output_url, and the output_url values: the public
\* URL written by the Highlight Stager, or a local path.
NoOutputUrl == [kind |-> "none"]
UrlOutput(url) == [kind |-> "url", url |-> url]
PathOutput(path) == [kind |-> "path", path |-> path]

\* The highlight quota test with the limit itself still allowed.
QuotaReached_AboveLimit(highlight_count) == highlight_count > MAX_HIGHLIGHTS_PER_MONTH

\* `highlight_count >= self.MAX_HIGHLIGHTS_PER_MONTH` of ensure_highlight_quota
QuotaReached(highlight_count) == highlight_count >= MAX_HIGHLIGHTS_PER_MONTH

\* ClipJobRepository.count_highlights_for_range over the current month (month 0
\* is the month of the request): the user's jobs created in it with an output_url.
count_highlights_for_range(db, user_id) ==
    Cardinality({ j \in db.clip_jobs :
                    j.user_id = user_id /\ j.month = 0 /\ j.output_url # NoOutputUrl })

\* sum(end_seconds - start_seconds) over the rows
RECURSIVE total_duration(_)
total_duration(rows) ==
    IF rows = {} THEN 0
    ELSE LET g == CHOOSE x \in rows : TRUE
         IN (g.end_seconds - g.start_seconds) + total_duration(rows \ {g})

\* The rank of a highlight file name in sorted(candidate.glob("*.mp4")):
\* "abc123..." < "job-1..." < "job-2...", and "<x>_highlight.mp4" before
\* "<x>_highlight_watermarked.mp4" ("." sorts before "_").
NameRank(path) ==
    2 * (CASE path.name[1] = VideoId -> 0
           [] path.name[1] = "job-1" -> 1
           [] OTHER -> 2)
    + (IF Len(path.name) > 2 THEN 1 ELSE 0)

\* resolve_highlight_path(output_url, youtube_id): the output_url when it is an
\* existing path; else, with HIGHLIGHT_ROOT set, the first mp4 of the video's
\* highlight directory; else None.
resolve_highlight_path(output_url, youtube_id, fs, ds, env) ==
    LET candidate == DirPath("HIGHLIGHT_ROOT", youtube_id)
        mp4_files == { f \in fs : Parent(f) = candidate }
    IN IF output_url.kind = "path" /\ output_url.path \in fs
       THEN output_url.path
       ELSE IF env.HIGHLIGHT_ROOT /\ candidate \in ds /\ mp4_files # {}
       THEN CHOOSE f \in mp4_files : \A g \in mp4_files : NameRank(f) <= NameRank(g)
       ELSE NoPath

\* The tags compared as given, not lower-cased.
PublishTags_CaseSensitive(tags, shorts_mode) ==
    LET has(t) == \E i \in 1..Len(tags) : tags[i] = t
    IN IF shorts_mode /\ ~has(T_shorts) /\ ~has(T_hashshorts)
       THEN Append(tags, T_shorts)
       ELSE tags

\* The tag list publish_highlight puts into the metadata.
PublishTags(tags, shorts_mode) ==
    LET tag_values == [i \in 1..Len(tags) |-> Lower(tags[i])]
        has(t) == \E i \in 1..Len(tag_values) : tag_values[i] = t
    IN IF shorts_mode /\ ~has(T_shorts) /\ ~has(T_hashshorts)
       THEN Append(tags, T_shorts)
       ELSE tags

\* The default queue (queue=None).
NoQueue == "<default>"

\* Every task sent to the default queue with priority 5, whatever the plan.
PublishTask_DefaultLaneOnly(youtube_id, file_path, metadata, tokens, user_id, job_id, plan, shorts_mode) ==
    [name |-> "videos.publish_to_youtube",
     kwargs |-> [youtube_id |-> youtube_id, file_path |-> file_path,
                 metadata |-> metadata, tokens |-> tokens, user_id |-> user_id,
                 job_id |-> job_id, shorts_mode |-> shorts_mode],
     queue |-> NoQueue,
     priority |-> 5]

\* What PublishQueue.enqueue_publish hands to send_task.
PublishTask(youtube_id, file_path, metadata, tokens, user_id, job_id, plan, shorts_mode) ==
    [name |-> "videos.publish_to_youtube",
     kwargs |-> [youtube_id |-> youtube_id, file_path |-> file_path,
                 metadata |-> metadata, tokens |-> tokens, user_id |-> user_id,
                 job_id |-> job_id, shorts_mode |-> shorts_mode],
     queue |-> IF plan = "paid" THEN "priority" ELSE NoQueue,
     priority |-> IF plan = "paid" THEN 9 ELSE 5]

\* The identifiers of the stored rows.
StoredVideoId == "video-1"
NewJobId == "job-new"

\* The stored video row: its duration is 10 seconds.
VideoRow(user_id) ==
    [id |-> StoredVideoId, user_id |-> user_id, youtube_id |-> VideoId, duration_seconds |-> 10]

\* Segment bounds of the requests of POST /segments: negative, zero, inside
\* the video, at its end and past it.
SampleBounds == { -1, 0, 5, 10, 11 }

SampleClipSegments ==
    { [start |-> a, end |-> b, position |-> p] :
        a \in SampleBounds, b \in SampleBounds, p \in {0, 1} }

\* The requests of POST /segments: up to two segments.
SampleClipJobRequests ==
    [endpoint : {"segments"}, user_id : {"user-1"}, youtube_id : {VideoId},
     plan : {"free", "paid"}, transition : { S_fade, S_slide, S_cut },
     segments : SeqsUpTo(SampleClipSegments, 2)]

\* POST /segments arrives; the videos table holds no row, the user's row for
\* the video, or another user's.
ApiSegmentsInit ==
    /\ a_pc = "segments"
    /\ a_req \in SampleClipJobRequests
    /\ \E owner \in {"", "user-1", "user-2"} :
          a_db = [videos |-> IF owner = "" THEN {} ELSE {VideoRow(owner)},
                  clip_jobs |-> {}, clip_segments |-> {}, youtube_tokens |-> {}]
    /\ a_env = [HIGHLIGHT_ROOT |-> FALSE]
    /\ a_calls = <<>>
    /\ a_queue = <<>>
    /\ a_resp = NoResponse
    /\ files = {}
    /\ dirs = {}

\* The handler answers with an error status and does nothing else.
ApiRefuse(code, detail) ==
    /\ a_resp' = [status |-> code, detail |-> detail]
    /\ a_pc' = "done"
    /\ UNCHANGED <<a_req, a_db, a_env, a_calls, a_queue>>

\* The rows create_job_with_segments inserts.
JobRow(user_id, video_id, transition) ==
    [id |-> NewJobId, user_id |-> user_id, video_id |-> video_id,
     transition |-> transition, output_url |-> NoOutputUrl, month |-> 0]

SegmentRows(job_id, segments) ==
    { [job_id |-> job_id, start_seconds |-> segments[i].start,
       end_seconds |-> segments[i].end, position |-> segments[i].position, n |-> i] :
        i \in 1..Len(segments) }

\* POST /segments: request validation, then save_segments.  Either insert of
\* create_job_with_segments succeeds or raises; an error of the store is
\* answered with 502.
ApiSaveSegments ==
    /\ a_pc = "segments"
    /\ LET payload == a_req
           video == get_video_by_user_and_youtube(a_db, payload.user_id, payload.youtube_id)
       IN IF ClipJobRequestInvalid(payload)
          THEN ApiRefuse(422, "validation error")
          ELSE IF video = NoRow
          THEN ApiRefuse(404, "Video not found for user")
          ELSE IF payload.plan = "free" /\ payload.transition \notin ALLOWED_TRANSITIONS
          THEN ApiRefuse(403, "Free tier supports only fade transitions")
          ELSE IF \E i \in 1..Len(payload.segments) :
                     payload.segments[i].end > video.duration_seconds
          THEN ApiRefuse(400, "Segment end exceeds video duration")
          ELSE
          LET job == JobRow(payload.user_id, video.id, payload.transition)
              rows == SegmentRows(job.id, payload.segments)
              call == [kind |-> "create_job_with_segments", user_id |-> payload.user_id,
                       video_id |-> video.id]
          IN \E job_ok \in BOOLEAN, segments_ok \in BOOLEAN :
                /\ a_calls' = a_calls \o
                      << call, [kind |-> "clip_jobs.insert", ok |-> job_ok] >>
                      \o (IF job_ok
                          THEN << [kind |-> "clip_segments.insert", ok |-> segments_ok] >>
                          ELSE <<>>)
                /\ a_db' = [a_db EXCEPT
                              !.clip_jobs = IF job_ok THEN @ \cup {job} ELSE @,
                              !.clip_segments = IF job_ok /\ segments_ok
                                                THEN @ \cup rows ELSE @]
                /\ a_resp' = IF job_ok /\ segments_ok
                             THEN [status |-> 200, job_id |-> job.id]
                             ELSE [status |-> 502, detail |-> "Failed to persist clip job"]
                /\ a_pc' = "done"
                /\ UNCHANGED <<a_req, a_env, a_queue>>
    /\ UNCHANGED <<fsVars, compVars, mergeVars, trimVars, hlVars, pubVars, dlVars>>

\* The watermarked highlight file of a job.
HighlightFile(job_id) == WatermarkedPath(HighlightPath(VideoId, job_id))

\* The stored OAuth row of a user.
TokenRow(user_id) ==
    [user_id |-> user_id, access_token |-> "old", refresh_token |-> "refresh",
     expires_at |-> ExpiryAt(3600)]

\* Other clip_jobs rows of the store: two of the user with an output_url in the
\* current month, one of the month before, one of another user.
OtherJobRow(id, user_id, month) ==
    [id |-> id, user_id |-> user_id, video_id |-> StoredVideoId, transition |-> S_fade,
     output_url |-> UrlOutput(PublicUrl("media", VideoId, HighlightFile(id))),
     month |-> month]

OtherJobRows ==
    { {}, {OtherJobRow("job-a", "user-1", 0)},
      {OtherJobRow("job-a", "user-1", 0), OtherJobRow("job-b", "user-1", 0)},
      {OtherJobRow("job-a", "user-1", 0), OtherJobRow("job-c", "user-1", -1),
       OtherJobRow("job-d", "user-2", 0)} }

\* The segments of the job to publish: 60 seconds in all, or 61.
PublishSegmentRows(extra) ==
    { [job_id |-> "job-1", start_seconds |-> 0, end_seconds |-> 30, position |-> 0, n |-> 1],
      [job_id |-> "job-1", start_seconds |-> 40, end_seconds |-> 70 + extra,
       position |-> 1, n |-> 2] }

\* The requests of POST /publish, all by user-1 for job-1.
SamplePublishRequests ==
    [endpoint : {"publish"}, user_id : {"user-1"}, job_id : {"job-1"},
     plan : {"free", "paid"}, shorts_mode : BOOLEAN,
     tags : { <<>>, <<T_tag>>, << T_tag, <<"S","H","O","R","T","S">> >>,
              << <<"#","S","h","o","r","t","s">>, T_tag >> }]

\* POST /publish arrives.  The job is not stored, or belongs to the user or to
\* another; its output_url is absent, a public URL or a local path; its video
\* row, its segments and the user's tokens are stored or not; the highlight
\* directory holds the job's file, another job's, both or none.
ApiPublishInit ==
    /\ a_pc = "publish"
    /\ a_req \in SamplePublishRequests
    /\ \E owner \in {"", "user-1", "user-2"},
          output \in { NoOutputUrl,
                       UrlOutput(PublicUrl("media", VideoId, HighlightFile("job-1"))),
                       PathOutput(HighlightFile("job-1")) },
          others \in OtherJobRows, video \in BOOLEAN, extra \in {0, 1},
          tokens \in BOOLEAN :
          a_db = [videos |-> IF video THEN {VideoRow("user-1")} ELSE {},
                  clip_jobs |-> others \cup
                      (IF owner = "" THEN {}
                       ELSE {[id |-> "job-1", user_id |-> owner, video_id |-> StoredVideoId,
                              transition |-> S_fade, output_url |-> output, month |-> 0]}),
                  clip_segments |-> PublishSegmentRows(extra),
                  youtube_tokens |-> IF tokens THEN {TokenRow("user-1")} ELSE {}]
    /\ a_env \in [HIGHLIGHT_ROOT : BOOLEAN]
    /\ a_calls = <<>>
    /\ a_queue = <<>>
    /\ a_resp = NoResponse
    /\ files \in SUBSET {HighlightFile("job-1"), HighlightFile(OtherJobId)}
    /\ dirs = { DirPath("HIGHLIGHT_ROOT", VideoId) }

\* POST /publish: publish_highlight.  The queue accepts the task or raises,
\* which is answered with 502.
ApiPublishHighlight ==
    /\ a_pc = "publish"
    /\ LET payload == a_req
           job == get_job_by_id(a_db, payload.job_id)
           video == get_video_by_id(a_db, job.video_id)
       IN IF job = NoRow
          THEN ApiRefuse(404, "Clip job not found")
          ELSE IF job.user_id # payload.user_id
          THEN ApiRefuse(403, "User not authorized for job")
          ELSE IF payload.plan = "free"
                  /\ QuotaReached(count_highlights_for_range(a_db, payload.user_id))
          THEN ApiRefuse(402, "Free tier limit reached")
          ELSE IF video = NoRow
          THEN ApiRefuse(404, "Video not found for job")
          ELSE IF payload.shorts_mode
                  /\ total_duration(get_segments_for_job(a_db, payload.job_id))
                        > SHORTS_MAX_DURATION
          THEN ApiRefuse(400, "Shorts mode requires fewer seconds of clips")
          ELSE
          LET highlight_path == resolve_highlight_path(job.output_url, video.youtube_id,
                                                       files, dirs, a_env)
              tokens == get_tokens_for_user(a_db, payload.user_id)
          IN IF highlight_path = NoPath
             THEN ApiRefuse(400, "Highlight file not available for upload")
             ELSE IF tokens = NoRow
             THEN ApiRefuse(400, "YouTube authorization is required before publishing")
             ELSE
             LET metadata == [tags |-> PublishTags(payload.tags, payload.shorts_mode),
                              shorts_mode |-> payload.shorts_mode]
                 task == PublishTask(video.youtube_id, highlight_path, metadata, tokens,
                                     payload.user_id, payload.job_id, payload.plan,
                                     payload.shorts_mode)
             IN \E sent \in BOOLEAN :
                   /\ a_calls' = Append(a_calls, [kind |-> "enqueue_publish", ok |-> sent])
                   /\ a_queue' = IF sent THEN Append(a_queue, task) ELSE a_queue
                   /\ a_resp' = IF sent
                                THEN [status |-> 200, job_id |-> payload.job_id]
                                ELSE [status |-> 502,
                                      detail |-> "Failed to queue YouTube upload"]
                   /\ a_pc' = "done"
                   /\ UNCHANGED <<a_req, a_db, a_env>>
    /\ UNCHANGED <<fsVars, compVars, mergeVars, trimVars, hlVars, pubVars, dlVars>>

ApiNext == ApiSaveSegments \/ ApiPublishHighlight

\* One request arrives at the API: POST /segments or POST /publish.
ApiSpecInit ==
    /\ ApiSegmentsInit \/ ApiPublishInit
    /\ CompIdle /\ MergeIdle /\ TrimIdle /\ HlIdle /\ PubIdle /\ DlIdle

SpecApi == ApiSpecInit /\ [][ApiNext]_vars

\* ------------------------------------------------------------ API: claim C29

\* The claim's condition for POST /segments: the user has a row for the video,
\* the list is not empty, every segment lies within [0, duration] with
\* start < end, and the plan is paid or the transition is fade.
SegmentsAcceptable ==
    /\ \E v \in a_db.videos :
          /\ v.user_id = a_req.user_id /\ v.youtube_id = a_req.youtube_id
          /\ \A i \in 1..Len(a_req.segments) :
                /\ 0 <= a_req.segments[i].start
                /\ a_req.segments[i].start < a_req.segments[i].end
                /\ a_req.segments[i].end <= v.duration_seconds
    /\ a_req.segments # <<>>
    /\ a_req.plan = "paid" \/ a_req.transition = S_fade

CreateJobCalls ==
    { i \in 1..Len(a_calls) : a_calls[i].kind = "create_job_with_segments" }

\* C29: POST /segments calls create_job_with_segments, once, if and only if
\* the claim's condition holds; a request answered 200 has its job and segment
\* rows stored; a request that fails the condition is answered 404, 400, 403
\* or 422, makes no repository call and leaves no job or segment row.
C29_JobCreatedIffRequestAcceptable ==
    (a_pc = "done" /\ a_req.endpoint = "segments") =>
        /\ CreateJobCalls # {} <=> SegmentsAcceptable
        /\ Cardinality(CreateJobCalls) <= 1
        /\ a_resp.status = 200 <=>
              /\ \E j \in a_db.clip_jobs :
                    /\ j.user_id = a_req.user_id
                    /\ j.transition = a_req.transition
                    /\ Cardinality({ g \in a_db.clip_segments : g.job_id = j.id })
                          = Len(a_req.segments)
              /\ Len(a_req.segments) > 0
        /\ SegmentsAcceptable => a_resp.status \in {200, 502}
        /\ ~SegmentsAcceptable =>
              /\ a_resp.status \in {404, 400, 403, 422}
              /\ a_calls = <<>>
              /\ a_db.clip_jobs = {} /\ a_db.clip_segments = {}

\* C29 witness: a paid request with a slide transition and two segments, one
\* of them ending exactly at the end of the video, was answered 200.
C29_Witness ==
    /\ a_pc = "done" /\ a_req.endpoint = "segments"
    /\ a_req.plan = "paid" /\ a_req.transition = S_slide
    /\ Len(a_req.segments) = 2
    /\ a_req.segments[2].end = 10
    /\ a_resp.status = 200
    /\ Cardinality(a_db.clip_segments) = 2

\* ------------------------------------------------------------ API: claim C31

\* C31 (as claimed): the segment rows stored for one job have pairwise
\* distinct positions.
C31_PositionsDistinctPerJob ==
    \A g \in a_db.clip_segments : \A h \in a_db.clip_segments :
        (g.job_id = h.job_id /\ g # h) => g.position # h.position

\* ------------------------------------------------------------ API: claim C30

\* The checks of the claim, in its order, and the status of each.
PublishJobs == { j \in a_db.clip_jobs : j.id = a_req.job_id }

PublishCheck(k) ==
    CASE k = 1 -> PublishJobs # {}
      [] k = 2 -> \A j \in PublishJobs : j.user_id = a_req.user_id
      [] k = 3 -> \/ a_req.plan = "paid"
                  \/ Cardinality({ j \in a_db.clip_jobs :
                                     /\ j.user_id = a_req.user_id
                                     /\ j.month = 0
                                     /\ j.output_url # NoOutputUrl }) < 2
      [] k = 4 -> \A j \in PublishJobs : \E v \in a_db.videos : v.id = j.video_id
      [] k = 5 -> \/ ~a_req.shorts_mode
                  \/ total_duration({ g \in a_db.clip_segments : g.job_id = a_req.job_id })
                        <= 60
      [] k = 6 -> \E f \in files :
                     \/ f.root = "HIGHLIGHT_ROOT"
                     \/ \E j \in PublishJobs : j.output_url = PathOutput(f)
      [] k = 7 -> \E t \in a_db.youtube_tokens : t.user_id = a_req.user_id

PublishCheckStatus == <<404, 403, 402, 404, 400, 400, 400>>

\* C30: POST /publish has a task in the queue only if the seven checks all
\* hold, and then exactly one; when a check fails the request is answered with
\* the status of the first failing check, nothing is enqueued and the queue is
\* not called.
C30_PublishEnqueuedOnlyWhenAllowed ==
    (a_pc = "done" /\ a_req.endpoint = "publish") =>
        /\ a_queue # <<>> =>
              /\ \A k \in 1..7 : PublishCheck(k)
              /\ Len(a_queue) = 1
              /\ a_resp.status = 200
        /\ a_resp.status = 200 => Len(a_queue) = 1
        /\ \A k \in 1..7 :
              (~PublishCheck(k) /\ \A i \in 1..(k - 1) : PublishCheck(i)) =>
                  /\ a_resp.status = PublishCheckStatus[k]
                  /\ a_queue = <<>>
                  /\ a_calls = <<>>

\* C30 witness: a free-plan request in shorts mode, with one highlight already
\* counted this month and exactly 60 seconds of segments, was enqueued.
C30_Witness ==
    /\ a_pc = "done" /\ a_req.endpoint = "publish"
    /\ a_req.plan = "free" /\ a_req.shorts_mode
    /\ Cardinality({ j \in a_db.clip_jobs : j.user_id = "user-1" /\ j.month = 0
                                              /\ j.output_url # NoOutputUrl }) = 1
    /\ total_duration(a_db.clip_segments) = 60
    /\ Len(a_queue) = 1
    /\ a_resp.status = 200

\* ------------------------------------------------------------ API: claim C34

OtherPlan(plan) == IF plan = "paid" THEN "free" ELSE "paid"

\* What enqueue_publish sends for the request that differs from the enqueued
\* one only in its plan.
TwinTask(task, plan) ==
    PublishTask(task.kwargs.youtube_id, task.kwargs.file_path, task.kwargs.metadata,
                task.kwargs.tokens, task.kwargs.user_id, task.kwargs.job_id,
                OtherPlan(plan), task.kwargs.shorts_mode)

\* C34: the lane depends only on the plan and the plan changes nothing else:
\* a paid-plan task goes to the paid queue with priority 9, a free-plan task to
\* the default queue with priority 5, and the request differing only in plan
\* sends the same task name and the same task arguments on the other lane.
C34_LaneDependsOnlyOnPlan ==
    (a_pc = "done" /\ a_req.endpoint = "publish" /\ a_queue # <<>>) =>
        LET task == a_queue[1]
            twin == TwinTask(task, a_req.plan)
        IN /\ Len(a_queue) = 1
           /\ a_req.plan = "paid" => (task.queue = "priority" /\ task.priority = 9)
           /\ a_req.plan = "free" => (task.queue = NoQueue /\ task.priority = 5)
           /\ task.name = "videos.publish_to_youtube"
           /\ twin.name = task.name
           /\ twin.kwargs = task.kwargs
           /\ twin.queue # task.queue
           /\ twin.priority # task.priority

\* C34 witness: a paid-plan task was sent to the paid queue with priority 9.
C34_Witness ==
    /\ a_pc = "done" /\ a_req.endpoint = "publish"
    /\ a_req.plan = "paid"
    /\ Len(a_queue) = 1
    /\ a_queue[1].queue = "priority" /\ a_queue[1].priority = 9

\* A free-plan task was sent to the default queue with priority 5.
C34_WitnessFree ==
    /\ a_pc = "done" /\ a_req.endpoint = "publish"
    /\ a_req.plan = "free"
    /\ Len(a_queue) = 1
    /\ a_queue[1].queue = NoQueue /\ a_queue[1].priority = 5

\* ------------------------------------------------------------ API: claim C38

\* C38 (as claimed): job creation is all-or-nothing: when POST /segments is
\* answered 502 because persisting failed, the store holds no new clip_jobs
\* row and no new clip_segments row.
C38_JobCreationIsAllOrNothing ==
    (a_pc = "done" /\ a_req.endpoint = "segments" /\ a_resp.status = 502) =>
        /\ a_db.clip_jobs = {}
        /\ a_db.clip_segments = {}

\* ------------------------------------------------------------ API: claim C39

\* C39 (as claimed): the file path POST /publish enqueues for a job is the
\* highlight file produced for that job, never another job's.
C39_EnqueuedFileIsTheJobsOwn ==
    (a_pc = "done" /\ a_req.endpoint = "publish" /\ a_queue # <<>>) =>
        a_queue[1].kwargs.file_path = HighlightFile(a_req.job_id)

\* ------------------------------------------------------------ API: claim C37

\* The tag is "shorts" or "#shorts" in any letter case.
IsShortsTag(tag) == Lower(tag) \in { T_shorts, T_hashshorts }

ShortsTagCount(tags) == Cardinality({ i \in 1..Len(tags) : IsShortsTag(tags[i]) })

\* The tag list the worker's upload initiation sends for an enqueued task:
\* publish_to_youtube defaults shorts_mode in the metadata and
\* _initiate_resumable_upload adjusts the tags.
TagsSentFor(task) ==
    UploadTags(WithShortsDefault(task.kwargs.metadata, task.kwargs.shorts_mode))

\* C37: for a request in shorts mode, after the handler of POST /publish and
\* then the worker's upload initiation have adjusted the tag list, the list
\* sent holds exactly one shorts tag, appended to the user's tags, when the
\* user supplied none, and is exactly the user's list when the user supplied one.
C37_ShortsTaggingIsIdempotent ==
    (a_pc = "done" /\ a_req.endpoint = "publish" /\ a_queue # <<>> /\ a_req.shorts_mode) =>
        LET sent == TagsSentFor(a_queue[1])
        IN IF ShortsTagCount(a_req.tags) = 0
           THEN /\ ShortsTagCount(sent) = 1
                /\ sent = Append(a_req.tags, T_shorts)
           ELSE sent = a_req.tags

\* C37 witness: a shorts-mode request with the one tag "sermon" was enqueued
\* with "shorts" appended by the handler.
C37_Witness ==
    /\ a_pc = "done" /\ a_req.endpoint = "publish"
    /\ a_req.shorts_mode
    /\ a_req.tags = <<T_tag>>
    /\ Len(a_queue) = 1
    /\ a_queue[1].kwargs.metadata.tags = <<T_tag, T_shorts>>
    /\ TagsSentFor(a_queue[1]) = <<T_tag, T_shorts>>

\* A shorts-mode request that carries "SHORTS" was enqueued with its own tags.
C37_WitnessOwnTag ==
    /\ a_pc = "done" /\ a_req.endpoint = "publish"
    /\ a_req.shorts_mode
    /\ ShortsTagCount(a_req.tags) = 1
    /\ Len(a_queue) = 1
    /\ T_shorts \notin { a_req.tags[i] : i \in 1..Len(a_req.tags) }
    /\ TagsSentFor(a_queue[1]) = a_req.tags

\* ------------------------------------------------------- Stage order: claim C27

\* C27 (as claimed): the stage order is enforced by the stages themselves: the
\* Merger invokes the encoder only when every part file it names exists, the
\* Highlight Stager goes on to the watermark only when the merged file exists,
\* and the Publisher makes a network call only when the highlight file exists.
C27_StageOrderEnforced ==
    [][ /\ m_invocations' # m_invocations =>
               \A i \in 1..Len(m_command.inputs) : m_command.inputs[i] \in files
        /\ (h_pc = "call" /\ h_pc' = "watermark") => h_args.merged_path \in files
        /\ p_calls' # p_calls => p_args.file_path \in files ]_vars

\* The highlight and publish parts of C27 alone.
C27_HighlightAndPublishChecked ==
    [][ /\ (h_pc = "call" /\ h_pc' = "watermark") => h_args.merged_path \in files
        /\ p_calls' # p_calls => p_args.file_path \in files ]_vars

\* ---------------------------------------------- Highlight Stager: claim C36

\* The name the claim gives the highlight file: the job identifier when one
\* is given, the source-video identifier otherwise.
HighlightOwner == IF h_args.job_id # NoJobId THEN h_args.job_id ELSE h_args.youtube_id

\* The staged path of the invocation is the claimed one, before and after the
\* watermark, and no job with another identifier gets it.
HighlightNamedByJob ==
    h_staged # NoPath =>
        /\ h_staged.root = "HIGHLIGHT_ROOT"
        /\ h_staged.id = h_args.youtube_id
        /\ h_staged.name \in { <<HighlightOwner, "_highlight">>,
                               <<HighlightOwner, "_highlight", "_watermarked">> }
        /\ h_pc \in {"upload", "cleanup", "returned"} =>
               h_staged.name = <<HighlightOwner, "_highlight", "_watermarked">>
        /\ \A j \in (JobIds \cup {OtherJobId}) \ {NoJobId} :
               (h_args.job_id # NoJobId /\ j # h_args.job_id) =>
                   /\ WatermarkedPath(HighlightPath(h_args.youtube_id, j)) # h_staged
                   /\ HighlightPath(h_args.youtube_id, j) # h_staged

\* The cleanup step deletes no file under the highlight root and leaves the
\* highlight directory in place.
CleanupKeepsHighlights ==
    (h_pc = "cleanup" /\ h_pc' = "returned") =>
        /\ \A f \in files \ files' : f.root # "HIGHLIGHT_ROOT"
        /\ \A d \in dirs \ dirs' : d.root # "HIGHLIGHT_ROOT"

\* C36: the final highlight file is HIGHLIGHT_ROOT/<source-video id>/<job id,
\* or source-video id without one>_highlight..., so jobs with distinct
\* identifiers get distinct highlight paths, and the cleanup step of
\* generate_highlight deletes no file under the highlight root.
C36_HighlightNamedByJobAndKept ==
    []HighlightNamedByJob /\ [][CleanupKeepsHighlights]_vars

\* C36 witness: the invocation for job-1 has returned after removing the
\* staging directories, and its watermarked highlight is on disk.
C36_Witness ==
    /\ h_pc = "returned"
    /\ h_args.job_id = "job-1"
    /\ \E i \in 1..Len(h_calls) : h_calls[i].kind = "rmtree"
    /\ h_staged = FilePath("HIGHLIGHT_ROOT", VideoId,
                           <<"job-1", "_highlight", "_watermarked">>, 0)
    /\ h_staged \in files

\* -------------------------------------------------- Concurrent jobs: claim C28

\* C28 (as claimed): no step of one job's stages deletes the merged file that
\* another job on the same source video has produced and not yet staged.
C28_OtherJobsFilesAreKept ==
    [][ MergedPath(VideoId, OtherJobId) \in files =>
            MergedPath(VideoId, OtherJobId) \in files' ]_vars

\* ------------------------------------------------ Upload Publisher: claim C2

\* The calls of one kind in the Publisher's log, as indices.
CallsOfKind(kind) == { i \in 1..Len(p_calls) : p_calls[i].kind = kind }

\* The claim's condition for a refresh: the expiry is parseable and at or
\* before now + 30 s, and client id, client secret and refresh token are present.
RefreshDue ==
    /\ "expires_at" \in DOMAIN p_args.tokens
    /\ p_args.tokens["expires_at"].kind = "aware"
    /\ p_args.tokens["expires_at"].t <= 30
    /\ p_args.client_id # "" /\ p_args.client_secret # ""
    /\ "refresh_token" \in DOMAIN p_args.tokens
    /\ p_args.tokens["refresh_token"] # ""

\* The invocation found its file and has gone past the token check.
PastTokenCheck == p_pc \notin {"idle", "call"} /\ p_args.file_path \in files

\* C2: when a refresh is due, exactly one token-refresh call is made, and it is
\* made before the upload-initiation call; in every other case no refresh call
\* is made and the upload is initiated with the original access token.
C2_RefreshExactlyWhenDue ==
    /\ Cardinality(CallsOfKind("refresh")) <= 1
    /\ \A i \in CallsOfKind("refresh") : RefreshDue /\ i = 1
    /\ (PastTokenCheck /\ RefreshDue /\ p_pc # "refresh") =>
          /\ CallsOfKind("refresh") = {1}
          /\ \A j \in CallsOfKind("initiate") : j > 1
    /\ (PastTokenCheck /\ ~RefreshDue) =>
          /\ CallsOfKind("refresh") = {}
          /\ p_pc # "refresh"
          /\ p_pc # "initiate" =>
                /\ Len(p_calls) >= 1
                /\ p_calls[1].kind = "initiate"
                /\ p_calls[1].access_token = Get(p_args.tokens, "access_token", "")

\* C2 witness: a token expiring exactly 30 s from now was refreshed once, the
\* upload was then initiated, and the invocation returned.
C2_Witness ==
    /\ p_pc = "returned"
    /\ "expires_at" \in DOMAIN p_args.tokens
    /\ p_args.tokens["expires_at"] = ExpiryAt(30)
    /\ p_calls[1].kind = "refresh"
    /\ p_calls[2].kind = "initiate"
    /\ Cardinality(CallsOfKind("refresh")) = 1

\* ----------------------------------------- Upload Publisher: claims C11..C16

PersistKinds == {"youtube_tokens.upsert", "clip_jobs.update"}

PersistCalls == { i \in 1..Len(p_calls) : p_calls[i].kind \in PersistKinds }

\* C11: when the file at file_path is missing, the invocation fails with the
\* file-not-found error and has made no refresh, initiation or upload request
\* and no persistence write.
C11_MissingFileFailsBeforeAnyCall ==
    (p_pc \notin {"idle", "call"} /\ p_args.file_path \notin files) =>
        /\ p_pc = "raised"
        /\ p_result = [status |-> "error", error |-> "Highlight file missing"]
        /\ p_calls = <<>>

\* C11 witness: the file is missing for an invocation whose token was due for
\* a refresh and which had a persistence client; it has raised.
C11_Witness ==
    /\ p_pc = "raised"
    /\ p_args.file_path \notin files
    /\ RefreshDue
    /\ p_args.supabase_client

\* The step of the state machine a logged call belongs to.
StepOf(kind) ==
    CASE kind = "refresh" -> 1
      [] kind = "initiate" -> 2
      [] kind = "upload" -> 3
      [] kind \in PersistKinds -> 4

\* C12: the calls of an invocation follow the order Refresh, InitiateUpload,
\* StreamUpload, PersistResult, none before the token check, each request at
\* most once; a StreamUpload directly follows a successful InitiateUpload and
\* goes to the location that one returned; a persistence write follows a
\* successful StreamUpload.
C12_StepsInOrder ==
    /\ p_pc \in {"idle", "call"} => p_calls = <<>>
    /\ \A i, j \in 1..Len(p_calls) :
          i < j => \/ StepOf(p_calls[i].kind) < StepOf(p_calls[j].kind)
                   \/ /\ p_calls[i].kind = "youtube_tokens.upsert"
                      /\ p_calls[j].kind = "clip_jobs.update"
    /\ \A i \in CallsOfKind("upload") :
          /\ i > 1
          /\ p_calls[i - 1].kind = "initiate"
          /\ p_calls[i - 1].ok
          /\ p_calls[i - 1].location \in SampleLocations
          /\ p_calls[i].url = p_calls[i - 1].location
    /\ \A i \in PersistCalls :
          \E j \in CallsOfKind("upload") : j < i /\ p_calls[j].ok

\* C12 witness: an invocation that went through all five steps, with both
\* persistence writes, and returned.
C12_Witness ==
    /\ p_pc = "returned"
    /\ Len(p_calls) = 5
    /\ [i \in 1..5 |-> p_calls[i].kind] =
          <<"refresh", "initiate", "upload", "youtube_tokens.upsert", "clip_jobs.update">>
    /\ p_calls[3].url = "https://upload.example.com/other"

\* C13: an initiation answered with a non-success status or without a session
\* location fails the invocation with no upload request made; a non-success
\* upload answer fails it after exactly one upload request; in both cases no
\* token upsert and no job update is written.
C13_InitiateOrUploadFailureIsHard ==
    /\ \A i \in CallsOfKind("initiate") :
          (~p_calls[i].ok \/ p_calls[i].location = NoUploadUrl) =>
              /\ p_pc = "raised"
              /\ CallsOfKind("upload") = {}
              /\ PersistCalls = {}
    /\ \A i \in CallsOfKind("upload") :
          ~p_calls[i].ok =>
              /\ p_pc = "raised"
              /\ Cardinality(CallsOfKind("upload")) = 1
              /\ PersistCalls = {}

\* C13 witness: with a persistence client at hand, the initiation endpoint
\* answered with success but without a Location, and the invocation raised.
C13_Witness ==
    /\ p_pc = "raised"
    /\ p_args.supabase_client
    /\ \E i \in CallsOfKind("initiate") : p_calls[i].ok /\ p_calls[i].location = NoUploadUrl

\* The refresh call that was answered with an access token, if there is one.
AnsweredRefreshes ==
    { i \in CallsOfKind("refresh") :
        p_calls[i].ok /\ "access_token" \in DOMAIN p_calls[i].response }

\* C14: after a refresh the active token set carries the access token the
\* token endpoint returned, and the original refresh token when the response
\* has none; InitiateUpload and StreamUpload both use the returned access
\* token and neither uses the original one.
C14_RefreshedTokenIsUsed ==
    \A r \in AnsweredRefreshes :
        LET response == p_calls[r].response
        IN /\ p_active["access_token"] = response["access_token"]
           /\ p_active["refresh_token"] =
                 IF "refresh_token" \in DOMAIN response THEN response["refresh_token"]
                 ELSE p_args.tokens["refresh_token"]
           /\ \A i \in CallsOfKind("initiate") \cup CallsOfKind("upload") :
                 /\ p_calls[i].access_token = response["access_token"]
                 /\ p_calls[i].access_token # p_args.tokens["access_token"]

\* C14 witness: a refresh answered without a refresh token, followed by the
\* initiation and the upload; the invocation returned.
C14_Witness ==
    /\ p_pc = "returned"
    /\ \E r \in AnsweredRefreshes : "refresh_token" \notin DOMAIN p_calls[r].response
    /\ CallsOfKind("initiate") # {}
    /\ CallsOfKind("upload") # {}

\* C32 (as claimed): an invocation that has a persistence client and whose
\* refresh was answered with an access token has, when it ends, upserted that
\* token for the user, whether the later steps succeeded or failed (the upsert
\* itself failing aside).
C32_RefreshedTokenIsPersisted ==
    (p_pc \in {"returned", "raised"} /\ p_args.supabase_client
        /\ p_result # [status |-> "error", error |-> "persistence write failed"]) =>
        \A r \in AnsweredRefreshes :
            \E i \in 1..Len(p_calls) :
                /\ p_calls[i].kind = "youtube_tokens.upsert"
                /\ p_calls[i].user_id = p_args.user_id
                /\ p_calls[i].access_token = p_calls[r].response["access_token"]
                /\ r < i

\* The upload answered with success and a remote video identifier.
UploadReturnedId == p_video_id # NoVideoId

\* C15: once the upload has returned a remote video identifier, an invocation
\* with a persistence client returns only after upserting the active token
\* set for user_id and, when a job identifier was supplied, after setting the
\* job's playback URL to the canonical URL of that identifier; an invocation
\* without a client writes nothing, does not fail, and returns the identifier.
C15_PersistAfterUpload ==
    UploadReturnedId =>
        /\ (p_args.supabase_client /\ p_pc = "returned") =>
              /\ \E i \in PersistCalls :
                    p_calls[i] = [kind |-> "youtube_tokens.upsert",
                                  user_id |-> p_args.user_id,
                                  access_token |-> p_active["access_token"],
                                  refresh_token |-> p_active["refresh_token"],
                                  expires_at |-> p_active["expires_at"]]
              /\ p_args.job_id # NoJobId =>
                    \E i \in PersistCalls :
                        p_calls[i] = [kind |-> "clip_jobs.update", id |-> p_args.job_id,
                                      youtube_url |-> <<"https://youtu.be/", p_video_id>>]
              /\ p_args.job_id = NoJobId =>
                    \A i \in PersistCalls : p_calls[i].kind # "clip_jobs.update"
        /\ ~p_args.supabase_client =>
              /\ PersistCalls = {}
              /\ p_pc \in {"persist", "returned"}
              /\ p_pc = "returned" => p_result.video_id = p_video_id

\* C15 witness: after a refresh, an invocation with a client and a job
\* identifier returned with the identifier of the uploaded video.
C15_Witness ==
    /\ p_pc = "returned"
    /\ UploadReturnedId
    /\ p_args.supabase_client
    /\ p_args.job_id # NoJobId
    /\ AnsweredRefreshes # {}

\* Some given tag is "shorts" or "#shorts" in any letter case.
HasShortsTag ==
    \E i \in 1..Len(p_args.metadata["tags"]) :
        Lower(p_args.metadata["tags"][i]) \in { T_shorts, T_hashshorts }

\* C16: the tag list sent by InitiateUpload is the given list with one
\* "shorts" appended when shorts mode is requested and no given tag is
\* "shorts" or "#shorts" in any letter case, and the given list otherwise.
C16_ShortsTagAppendedOnce ==
    \A i \in CallsOfKind("initiate") :
        p_calls[i].tags =
            IF p_args.shorts_mode /\ ~HasShortsTag
            THEN Append(p_args.metadata["tags"], T_shorts)
            ELSE p_args.metadata["tags"]

\* C16 witness: shorts mode was requested with the tag "#Shorts" given, and
\* the upload was initiated.
C16_Witness ==
    /\ p_args.shorts_mode
    /\ HasShortsTag
    /\ \A i \in 1..Len(p_args.metadata["tags"]) :
          p_args.metadata["tags"][i] \notin { T_shorts, T_hashshorts }
    /\ CallsOfKind("initiate") # {}

\* ------------------------------------------------ the stages: claims C17..C20

\* C17: a trim, merge or download stage has returned only if its last external
\* invocation (per segment, for the trim) reported success and the file exists
\* at the returned path; a last invocation that reported success with the
\* output absent has made the stage fail with the not-found error; and a
\* failed merge, re-encode or download has made the stage fail with that
\* failure.
C17_SuccessNeedsExitZeroAndOutput ==
    /\ m_pc = "returned" =>
          /\ m_runs # <<>>
          /\ m_runs[Len(m_runs)].exit_ok
          /\ m_result.path \in files
    /\ t_pc = "returned" =>
          \A k \in 1..Len(t_result.paths) :
              /\ t_result.paths[k] \in files
              /\ InvocationsFor(k) # <<>>
              /\ InvocationsFor(k)[Len(InvocationsFor(k))].exit_ok
              /\ InvocationsFor(k)[1].cmd.output = t_result.paths[k]
    /\ d_pc = "returned" =>
          /\ d_calls # <<>>
          /\ d_calls[Len(d_calls)].ok
          /\ d_result.path \in files
    /\ (m_runs # <<>> /\ m_runs[Len(m_runs)].exit_ok
          /\ m_invocations[Len(m_runs)].output \notin files) =>
          /\ m_pc = "raised"
          /\ m_result.error = "Merged output not found"
    /\ (t_invocations # <<>> /\ t_invocations[Len(t_invocations)].exit_ok
          /\ t_invocations[Len(t_invocations)].cmd.output \notin files) =>
          /\ t_pc = "raised"
          /\ t_result.error = "Trimmed segment not found"
    /\ (d_calls # <<>> /\ d_calls[Len(d_calls)].ok /\ d_pc # "cleaned"
          /\ SourcePath(d_args.youtube_id) \notin files) =>
          /\ d_pc = "raised"
          /\ d_result.error = "Expected downloaded video"
    /\ (m_runs # <<>> /\ ~m_runs[Len(m_runs)].exit_ok) =>
          /\ m_pc = "raised"
          /\ m_result.error = "CalledProcessError"
    /\ \A j \in 1..Len(t_invocations) :
          ~t_invocations[j].exit_ok =>
              IF t_invocations[j].cmd.kind = "reencode"
              THEN /\ j = Len(t_invocations)
                   /\ t_pc = "raised"
                   /\ t_result.error = "CalledProcessError"
              ELSE \/ j = Len(t_invocations) /\ t_pc = "reencode"
                   \/ /\ j < Len(t_invocations)
                      /\ t_invocations[j + 1].cmd.kind = "reencode"
    /\ (d_calls # <<>> /\ ~d_calls[Len(d_calls)].ok /\ d_pc # "cleaned") =>
          /\ d_pc = "raised"
          /\ d_result.error = "DownloadError"

\* C17 witness: the merge command exited with status 0 without writing the
\* merged file, and the merge raised.
C17_Witness ==
    /\ m_pc = "raised"
    /\ m_runs # <<>>
    /\ m_runs[1].exit_ok
    /\ ~m_runs[1].wrote
    /\ m_invocations[1].output \notin files

\* The part files of the source video on disk.
PartsOnDisk == { k \in 1..MaxSegments : PartPath(VideoId, k) \in files }

\* C18: a trim, merge or highlight stage that ended in an error has left no
\* file of its own making at its final output path: no merged file it wrote,
\* no part file (when it did not start on the full set of leftover parts), no
\* watermarked highlight.
C18_NoFinalOutputAfterError ==
    /\ m_pc = "raised" => \A i \in 1..Len(m_runs) : ~m_runs[i].wrote
    /\ (t_pc = "raised" /\ PartsOnDisk # 1..MaxSegments) => PartsOnDisk = {}
    /\ (h_pc = "raised" /\ ~Redelivered) =>
          WatermarkedPath(HighlightPath(h_args.youtube_id, h_args.job_id)) \notin files

\* C19: a generate_highlight delivered a second time with the same arguments,
\* after a first invocation that returned, does not fail unless one of its
\* external calls (encoder, storage, job update) fails.
C19_RedeliveryIsIdempotent ==
    (Redelivered /\ h_pc = "raised") =>
        h_result.error \in {"CalledProcessError", "storage upload failed",
                            "clip_jobs update failed"}

\* C20: the only steps that remove a file are the cleanup that ends a
\* successful generate_highlight, the removal of the pre-watermark copy that
\* generate_highlight made itself, and the cleanup_video task; so a stage
\* invocation that fails has removed none of the files of the earlier stages.
C20_FailingStageKeepsInputs ==
    [][ \A f \in files \ files' :
           \/ h_pc = "cleanup" /\ h_pc' = "returned"
           \/ h_pc = "watermark" /\ h_pc' # "raised" /\ f = h_staged
           \/ d_pc' = "cleaned" ]_vars

\* C20 witness: generate_highlight failed in its upload with the merged file
\* and the downloaded source still on disk.
C20_Witness ==
    /\ h_pc = "raised"
    /\ UploadAttempted
    /\ h_args.merged_path \in files
    /\ SourcePath(h_args.youtube_id) \in files

====
